---- MODULE Spec2Model ----
(***************************************************************************)
(* Planning-with-agents orchestration core: dependency validation, the     *)
(* level planner built on graphlib.TopologicalSorter, the two dispatchers  *)
(* (DAGScheduler.execute and execute_dag) and the debug/retry loop.        *)
(***************************************************************************)
EXTENDS Integers, Sequences, FiniteSets, TLC

(***************************************************************************)
(* Universe of the model.                                                  *)
(***************************************************************************)

\* Agent ids, in the order the worked examples declare them ('A'..'D').
NameOrder == <<"A", "B", "C", "D">>

Agents == {NameOrder[i] : i \in 1..Len(NameOrder)}

\* Descriptions used for malformed definition lists (A -> B -> C -> A).
ListNames == {"A", "B", "C"}

\* Longest malformed definition list that is enumerated.
MaxDefs == 3

\* Largest configured resource_limits.max_depth that is enumerated.
MaxDepthBound == 2

NoAgent == "none"

(***************************************************************************)
(* Sequence helpers.                                                       *)
(***************************************************************************)

Range(s) == {s[i] : i \in 1..Len(s)}

IndexOf(s, x) == CHOOSE i \in 1..Len(s) : s[i] = x /\ \A j \in 1..(i - 1) : s[j] # x

\* Iteration order of a Python set of agent ids; one fixed order per process.
SeqOfSet(S) ==
  LET F[i \in 0..Len(NameOrder)] ==
        IF i = 0 THEN <<>>
        ELSE IF NameOrder[i] \in S THEN Append(F[i - 1], NameOrder[i]) ELSE F[i - 1]
  IN F[Len(NameOrder)]

\* s followed by the elements of t that s does not hold yet (dict insertion).
AppendNew(s, t) ==
  LET F[i \in 0..Len(t)] ==
        IF i = 0 THEN s
        ELSE IF t[i] \in Range(F[i - 1]) THEN F[i - 1] ELSE Append(F[i - 1], t[i])
  IN F[Len(t)]

SelectInOrder(s, S) ==
  LET F[i \in 0..Len(s)] ==
        IF i = 0 THEN <<>>
        ELSE IF s[i] \in S THEN Append(F[i - 1], s[i]) ELSE F[i - 1]
  IN F[Len(s)]

Max(S) == CHOOSE x \in S : \A y \in S : y <= x

(***************************************************************************)
(* graphlib.TopologicalSorter, as DAGScheduler and topological_sort use it.*)
(***************************************************************************)

\* DAGScheduler._build_graph: graph[agent_id] = set(depends_on); a repeated
\* agent_id keeps its first position and takes the last depends_on.
build_graph(deps_list) ==
  LET n == Len(deps_list)
      ids == {deps_list[i].agent_id : i \in 1..n}
      last(a) == CHOOSE i \in 1..n :
                   /\ deps_list[i].agent_id = a
                   /\ \A j \in (i + 1)..n : deps_list[j].agent_id # a
  IN [keys |-> AppendNew(<<>>, [i \in 1..n |-> deps_list[i].agent_id]),
      deps |-> [a \in ids |-> deps_list[last(a)].depends_on]]

\* TopologicalSorter(graph): add(node, *predecessors) for every item. Nodes
\* are kept in first-mention order; a predecessor that is no key becomes a
\* node without predecessors.
TopologicalSorter(graph) ==
  LET K == graph.keys
      F[i \in 0..Len(K)] ==
        IF i = 0 THEN <<>>
        ELSE AppendNew(F[i - 1], <<K[i]>> \o SeqOfSet(graph.deps[K[i]]))
      nodes == F[Len(K)]
  IN [nodes |-> nodes,
      npredecessors |-> [x \in Range(nodes) |->
                           IF x \in Range(K) THEN Cardinality(graph.deps[x]) ELSE 0],
      successors |-> [x \in Range(nodes) |->
                        SelectInOrder(K, {k \in Range(K) : x \in graph.deps[k]})]]

\* TopologicalSorter._find_cycle: depth-first along successors; a successor
\* already seen and still on the stack closes a cycle, reported as the stack
\* from that node on, followed by the node again.
RECURSIVE find_cycle_visit(_, _, _, _), find_cycle_next(_, _, _, _)
find_cycle_visit(ts, node, stack, seen) ==
  find_cycle_next(ts, 1, Append(stack, node), seen \cup {node})

find_cycle_next(ts, i, stack, seen) ==
  LET node == stack[Len(stack)]
      succ == ts.successors[node]
  IN IF i > Len(succ) THEN [cycle |-> <<>>, seen |-> seen]
     ELSE LET s == succ[i]
          IN IF s \in seen
             THEN IF s \in Range(stack)
                  THEN [cycle |-> Append(SubSeq(stack, IndexOf(stack, s), Len(stack)), s),
                        seen |-> seen]
                  ELSE find_cycle_next(ts, i + 1, stack, seen)
             ELSE LET r == find_cycle_visit(ts, s, stack, seen)
                  IN IF r.cycle # <<>> THEN r
                     ELSE find_cycle_next(ts, i + 1, stack, r.seen)

find_cycle(ts) ==
  LET F[i \in 0..Len(ts.nodes)] ==
        IF i = 0 THEN [cycle |-> <<>>, seen |-> {}]
        ELSE IF F[i - 1].cycle # <<>> \/ ts.nodes[i] \in F[i - 1].seen THEN F[i - 1]
        ELSE find_cycle_visit(ts, ts.nodes[i], <<>>, F[i - 1].seen)
  IN F[Len(ts.nodes)].cycle

\* TopologicalSorter.prepare: the nodes without predecessors become ready.
prepare(ts) == SelectInOrder(ts.nodes, {x \in Range(ts.nodes) : ts.npredecessors[x] = 0})

\* Variant: a successor joins the ready list as soon as one predecessor is done.
ts_done_any_predecessor(ts, st, node) ==
  LET succ == ts.successors[node]
      F[i \in 0..Len(succ)] ==
        IF i = 0 THEN st
        ELSE [F[i - 1] EXCEPT !.npredecessors[succ[i]] = @ - 1,
                              !.ready_nodes = Append(@, succ[i])]
  IN F[Len(succ)]

\* TopologicalSorter.done(node): every successor loses one predecessor and
\* joins the ready list when none is left.
ts_done(ts, st, node) ==
  LET succ == ts.successors[node]
      F[i \in 0..Len(succ)] ==
        IF i = 0 THEN st
        ELSE LET n == F[i - 1].npredecessors[succ[i]] - 1
             IN [F[i - 1] EXCEPT !.npredecessors[succ[i]] = n,
                                 !.ready_nodes = IF n = 0 THEN Append(@, succ[i]) ELSE @]
  IN F[Len(succ)]

ts_done_all(ts, st, done_nodes) ==
  LET F[i \in 0..Len(done_nodes)] ==
        IF i = 0 THEN st ELSE ts_done(ts, F[i - 1], done_nodes[i])
  IN F[Len(done_nodes)]

\* topological_sort: levels.append(list(ts.get_ready())), then done() on
\* every agent of the level, while ts.is_active().
RECURSIVE collect_levels(_, _)
collect_levels(ts, st) ==
  IF st.ready_nodes = <<>> THEN <<>>
  ELSE <<st.ready_nodes>> \o
       collect_levels(ts, ts_done_all(ts, [st EXCEPT !.ready_nodes = <<>>], st.ready_nodes))

topological_sort(deps_list) ==
  LET ts == TopologicalSorter(build_graph(deps_list))
  IN collect_levels(ts, [npredecessors |-> ts.npredecessors, ready_nodes |-> prepare(ts)])

(***************************************************************************)
(* Cycle detection.                                                        *)
(***************************************************************************)

WHITE == 0
GRAY == 1
BLACK == 2

\* has_cycle: three-colour depth-first search along graph[node]; reaching a
\* GRAY node is a back edge. The search stops at the first cycle.
RECURSIVE visit(_, _, _), visit_neighbors(_, _, _, _)
\* Variant: one "visited" mark, so a node reached twice counts as a cycle.
visit_any_mark(graph, color, node) ==
  IF color[node] # WHITE THEN [found |-> TRUE, color |-> color]
  ELSE LET r == visit_neighbors(graph, [color EXCEPT ![node] = GRAY],
                                SeqOfSet(graph.deps[node]), 1)
       IN IF r.found THEN r
          ELSE [found |-> FALSE, color |-> [r.color EXCEPT ![node] = BLACK]]

visit(graph, color, node) ==
  IF color[node] = GRAY THEN [found |-> TRUE, color |-> color]
  ELSE IF color[node] = BLACK THEN [found |-> FALSE, color |-> color]
  ELSE LET r == visit_neighbors(graph, [color EXCEPT ![node] = GRAY],
                                SeqOfSet(graph.deps[node]), 1)
       IN IF r.found THEN r
          ELSE [found |-> FALSE, color |-> [r.color EXCEPT ![node] = BLACK]]

visit_neighbors(graph, color, neighbors, i) ==
  IF i > Len(neighbors) THEN [found |-> FALSE, color |-> color]
  ELSE LET r == visit(graph, color, neighbors[i])
       IN IF r.found THEN r ELSE visit_neighbors(graph, r.color, neighbors, i + 1)

has_cycle(graph) ==
  LET K == graph.keys
      F[i \in 0..Len(K)] ==
        IF i = 0 THEN [found |-> FALSE, color |-> [x \in Range(K) |-> WHITE]]
        ELSE IF F[i - 1].found \/ F[i - 1].color[K[i]] # WHITE THEN F[i - 1]
        ELSE visit(graph, F[i - 1].color, K[i])
  IN F[Len(K)].found

\* DAGScheduler.validate: ts.prepare() raises CycleError, whose second
\* argument is the cycle found; any other graph is accepted.
DAGScheduler_validate(graph) ==
  LET cycle == find_cycle(TopologicalSorter(graph))
  IN IF cycle # <<>> THEN [ok |-> FALSE, cycle |-> cycle]
     ELSE [ok |-> TRUE, cycle |-> <<>>]

(***************************************************************************)
(* Dependency validation (section 4.2): uniqueness, referential integrity, *)
(* cycle detection, depth bound, in this order.                            *)
(***************************************************************************)

NoError == [ok |-> TRUE, error |-> "none", task |-> NoAgent, ref |-> NoAgent,
            path |-> <<>>, depth |-> 0, max_depth |-> 0, checks |-> <<>>]

\* depth: 0 without dependencies, else 1 + the largest depth of a dependency.
RECURSIVE depth_of(_, _)
depth_of(graph, task) ==
  IF graph.deps[task] = {} THEN 0
  ELSE 1 + Max({depth_of(graph, d) : d \in graph.deps[task]})

\* 1. Uniqueness: the first definition that repeats an earlier description.
duplicate_index(deps_list) ==
  LET dup == {i \in 1..Len(deps_list) :
                \E j \in 1..(i - 1) : deps_list[j].agent_id = deps_list[i].agent_id}
  IN IF dup = {} THEN 0 ELSE CHOOSE i \in dup : \A j \in dup : i <= j

\* 2. Referential integrity: the first definition with an undeclared entry.
unknown_index(deps_list) ==
  LET ids == {deps_list[i].agent_id : i \in 1..Len(deps_list)}
      bad == {i \in 1..Len(deps_list) : ~(deps_list[i].depends_on \subseteq ids)}
  IN IF bad = {} THEN 0 ELSE CHOOSE i \in bad : \A j \in bad : i <= j

\* Variant: a task whose depth equals max_depth is too deep already.
too_deep_inclusive(graph, limit) ==
  SelectInOrder(graph.keys, {t \in Range(graph.keys) : depth_of(graph, t) >= limit})

\* 4. Depth bound: the tasks whose depth exceeds max_depth, in declared order.
too_deep(graph, limit) ==
  SelectInOrder(graph.keys, {t \in Range(graph.keys) : depth_of(graph, t) > limit})

DuplicateTask(deps_list, i) ==
  [NoError EXCEPT !.ok = FALSE, !.error = "DuplicateTask",
                  !.task = deps_list[i].agent_id, !.checks = <<"unique">>]

\* Variant: the error names the first entry of the offending task.
missing_ref_first_entry(deps_list, i) == SeqOfSet(deps_list[i].depends_on)[1]

\* The first entry of definition i that no definition declares.
missing_ref(deps_list, i) ==
  SeqOfSet(deps_list[i].depends_on \ {deps_list[j].agent_id : j \in 1..Len(deps_list)})[1]

UnknownDependency(deps_list, i) ==
  [NoError EXCEPT !.ok = FALSE, !.error = "UnknownDependency",
                  !.task = deps_list[i].agent_id, !.ref = missing_ref(deps_list, i),
                  !.checks = <<"unique", "refs">>]

CircularDependency(graph) ==
  [NoError EXCEPT !.ok = FALSE, !.error = "CircularDependency",
                  !.path = DAGScheduler_validate(graph).cycle,
                  !.checks = <<"unique", "refs", "cycle">>]

DepthExceeded(graph, limit) ==
  [NoError EXCEPT !.ok = FALSE, !.error = "DepthExceeded",
                  !.task = too_deep(graph, limit)[1],
                  !.depth = depth_of(graph, too_deep(graph, limit)[1]),
                  !.max_depth = limit,
                  !.checks = <<"unique", "refs", "cycle", "depth">>]

\* Variant: referential integrity is checked before uniqueness.
validate_refs_first(deps_list, limit) ==
  LET graph == build_graph(deps_list)
  IN IF unknown_index(deps_list) # 0
     THEN UnknownDependency(deps_list, unknown_index(deps_list))
     ELSE IF duplicate_index(deps_list) # 0
     THEN DuplicateTask(deps_list, duplicate_index(deps_list))
     ELSE IF has_cycle(graph) THEN CircularDependency(graph)
     ELSE IF too_deep(graph, limit) # <<>> THEN DepthExceeded(graph, limit)
     ELSE [NoError EXCEPT !.checks = <<"unique", "refs", "cycle", "depth">>]

\* validate: the four checks in order; the first failing one is the verdict.
validate(deps_list, limit) ==
  LET graph == build_graph(deps_list)
  IN IF duplicate_index(deps_list) # 0
     THEN DuplicateTask(deps_list, duplicate_index(deps_list))
     ELSE IF unknown_index(deps_list) # 0
     THEN UnknownDependency(deps_list, unknown_index(deps_list))
     ELSE IF has_cycle(graph) THEN CircularDependency(graph)
     ELSE IF too_deep(graph, limit) # <<>> THEN DepthExceeded(graph, limit)
     ELSE [NoError EXCEPT !.checks = <<"unique", "refs", "cycle", "depth">>]

(***************************************************************************)
(* State.                                                                  *)
(***************************************************************************)

VARIABLES
  step,            \* position of TaskDecomposer.decompose
  sub_tasks,       \* the definitions handed to the validator
  max_depth,       \* config.resource_limits.max_depth
  validation,      \* the validator's verdict
  execution_plan   \* levels of agent ids, empty until planned

VARIABLES
  scheduler,             \* "execute" (DAGScheduler) or "execute_dag" (level by level)
  max_concurrent_agents, \* config.max_concurrent_agents
  pc,                    \* position of the dispatcher's loop
  ts_state,              \* the TopologicalSorter of DAGScheduler.execute
  active_agents,         \* launched agents whose task is not reaped yet
  task_done,             \* launched agents whose task has finished
  agent_status,          \* status of every agent's .agent_status.yaml
  results,               \* result recorded per agent
  launch_count,          \* how often each agent has been launched
  level,                 \* execute_dag: index of the level being run
  index,                 \* execute_dag: position inside the level
  failing,               \* agent whose failure is being handled
  retries,               \* retry_agent: retries
  abandoned,             \* agents given up by mark_as_failed
  debug_agent_enabled,   \* config.failure_handling.debug_agent_enabled
  depth,                 \* status.depth of the agents of the run
  debug_agents           \* the debug agents launched so far

pvars == <<step, sub_tasks, max_depth, validation, execution_plan>>

\* The configuration of a run.
cvars == <<scheduler, max_concurrent_agents, debug_agent_enabled, depth>>

dvars == <<cvars, pc, ts_state, active_agents, task_done, agent_status, results, launch_count,
           level, index, failing, retries, abandoned, debug_agents>>

VARIABLES
  watch,                        \* "monitor_agent" or "execute_with_timeout"
  single_agent_timeout_minutes, \* config.single_agent_timeout_minutes, in clock ticks
  poll_interval_seconds,        \* config.poll_interval_seconds, in clock ticks
  now,                          \* the clock
  file_system,                  \* the agent's .agent_status.yaml and its temp file
  worker,                       \* the agent whose status file it is
  monitor,                      \* the master watching the agent
  write_log,                    \* every write_yaml to the status file: who, what
  observed                      \* what read_yaml has returned to the monitor

mvars == <<watch, single_agent_timeout_minutes, poll_interval_seconds, now, file_system,
           worker, monitor, write_log, observed>>

VARIABLES
  limiter,      \* the AgentCountLimiter: max_total, max_depth, current_count, agent_depths
  admissions,   \* answers True of can_create that no register has followed yet
  last_check,   \* the last call of can_create: the count it saw and its answer
  registrations,\* every call of register: the agent, its parent, the count its check saw
  tracker,      \* the CostTracker: total_cost, and cost_controls of its config
  governor,     \* the run under the tracker: warnings logged, exception raised
  plan_runs,    \* every run of validate then plan: the process, what it returned
  estimates,    \* estimated_duration_minutes of every task definition
  metrics,      \* result.metrics of the plan
  priorities,   \* priority of every task definition
  performance   \* what PerformanceMetrics.collect has returned last

lvars == <<limiter, admissions, last_check, registrations>>

\* The estimates of a plan.
evars == <<estimates, metrics, priorities, performance>>

gvars == <<lvars, tracker, governor, plan_runs, evars>>

vars == <<pvars, dvars, mvars, gvars>>

\* A CostTracker that tracks nothing.
NoTracker ==
  [total_tokens |-> [input |-> 0, output |-> 0], total_cost |-> 0,
   hard_limit_usd |-> 0, warning_threshold_usd |-> 0]

\* PerformanceMetrics.collect has not been called.
NoPerformance == [collected |-> FALSE, agent_count |-> 0, peak_concurrent |-> 0]

\* No metrics have been computed.
NoMetrics ==
  /\ estimates = <<>>
  /\ priorities = <<>>
  /\ performance = NoPerformance
  /\ metrics = [sequential_time_minutes |-> 0, parallel_time_minutes |-> 0,
                time_saved_percentage |-> 0, max_parallelism |-> 0]

\* No limiter and no tracker have been constructed.
NoGovernor ==
  /\ limiter = [max_total |-> 0, max_depth |-> 0, current_count |-> 0, agent_depths |-> <<>>]
  /\ admissions = <<>>
  /\ last_check = [count |-> 0, answer |-> "none"]
  /\ registrations = <<>>
  /\ tracker = NoTracker
  /\ governor = [tracked |-> FALSE, warnings |-> 0, raised |-> "none"]
  /\ plan_runs = <<>>
  /\ NoMetrics

\* Nothing has been decomposed.
NoPlan ==
  /\ step = "none"
  /\ sub_tasks = <<>>
  /\ max_depth = 0
  /\ validation = NoError
  /\ execution_plan = <<>>

\* No agent is being watched.
NoMonitor ==
  /\ watch = "none"
  /\ single_agent_timeout_minutes = 0
  /\ poll_interval_seconds = 0
  /\ now = 0
  /\ file_system = [status_file |-> <<>>, temp_file |-> <<>>]
  /\ worker = [pc |-> "none"]
  /\ monitor = [pc |-> "none"]
  /\ write_log = {}
  /\ observed = {}

\* No run has started: nothing of the dispatcher exists yet.
NoRun ==
  /\ scheduler = "none"
  /\ max_concurrent_agents = 0
  /\ pc = "idle"
  /\ ts_state = [npredecessors |-> <<>>, ready_nodes |-> <<>>, npassedout |-> 0, nfinished |-> 0]
  /\ active_agents = <<>>
  /\ task_done = {}
  /\ agent_status = <<>>
  /\ results = <<>>
  /\ launch_count = <<>>
  /\ level = 0
  /\ index = 0
  /\ failing = NoAgent
  /\ retries = 0
  /\ abandoned = {}
  /\ debug_agent_enabled = FALSE
  /\ depth = 0
  /\ debug_agents = {}

(***************************************************************************)
(* Inputs of the planner.                                                  *)
(***************************************************************************)

\* Well-formed definition sets over the four agents, declared in NameOrder.
GraphInputs ==
  {[i \in 1..Len(NameOrder) |-> [agent_id |-> NameOrder[i], depends_on |-> d[NameOrder[i]]]] :
     d \in {e \in [Agents -> SUBSET Agents] : \A a \in Agents : a \notin e[a]}}

\* Definition lists that may repeat a description or name an undeclared one.
ListInputs ==
  UNION {[1..n -> [agent_id : ListNames, depends_on : SUBSET ListNames]] : n \in 1..MaxDefs}

Inputs == GraphInputs \cup ListInputs

(***************************************************************************)
(* TaskDecomposer.decompose                                                *)
(***************************************************************************)

PlanInit ==
  /\ step = "decompose"
  /\ sub_tasks = <<>>
  /\ max_depth \in 1..MaxDepthBound
  /\ validation = NoError
  /\ execution_plan = <<>>
  /\ NoRun
  /\ NoMonitor
  /\ NoGovernor

\* Steps 1-2: the sub-tasks of the decomposition.
Decompose ==
  /\ step = "decompose"
  /\ \E input \in Inputs : sub_tasks' = input
  /\ step' = "validate"
  /\ UNCHANGED <<max_depth, validation, execution_plan, dvars, mvars, gvars>>

\* Step 3: validate_dependencies(sub_tasks); an error ends decompose.
ValidateDependencies ==
  /\ step = "validate"
  /\ validation' = validate(sub_tasks, max_depth)
  /\ step' = IF validation'.ok THEN "plan" ELSE "rejected"
  /\ UNCHANGED <<sub_tasks, max_depth, execution_plan, dvars, mvars, gvars>>

\* Step 4: compute_execution_plan(sub_tasks).
ComputeExecutionPlan ==
  /\ step = "plan"
  /\ execution_plan' = topological_sort(sub_tasks)
  /\ step' = "planned"
  /\ UNCHANGED <<sub_tasks, max_depth, validation, dvars, mvars, gvars>>


(***************************************************************************)
(* The dispatchers: DAGScheduler.execute and execute_dag.                  *)
(***************************************************************************)

\* Largest config.max_concurrent_agents that is enumerated.
MaxConcurrent == 3

\* resource_limits.max_depth as configured by default.
DefaultMaxDepth == 5

\* retry_agent(agent_id, max_retries=2)
max_retries == 2

Min(a, b) == IF a < b THEN a ELSE b

Perms(S) == {q \in [1..Cardinality(S) -> S] : Range(q) = S}

\* The validated definition sets a run starts from: the lists of GraphInputs
\* in which a task depends only on tasks defined before it.
DagInputs ==
  {l \in GraphInputs :
     /\ \A i \in 1..Len(l) : \A d \in l[i].depends_on : IndexOf(NameOrder, d) < i
     /\ ~has_cycle(build_graph(l))}

Sorter == TopologicalSorter(build_graph(sub_tasks))

\* Variant: the workspaces are set up whatever validation has said.
may_set_up_unvalidated(position) == position \in {"planned", "rejected"}

\* Phase 3 follows Phase 2: workspaces are set up for the sub-tasks that
\* decompose has returned, and decompose returns only after validation.
may_set_up(position) == position = "planned"

\* Phase 3, for each sub-agent to be created: its directory and its
\* .agent_status.yaml with status pending.
SetupWorkspaces ==
  /\ may_set_up(step)
  /\ agent_status' = [a \in {sub_tasks[i].agent_id : i \in 1..Len(sub_tasks)} |-> "pending"]
  /\ step' = "workspaces"
  /\ UNCHANGED <<sub_tasks, max_depth, validation, execution_plan, cvars, pc, ts_state,
                 active_agents, task_done, results, launch_count, level, index, failing,
                 retries, abandoned, debug_agents, mvars, gvars>>

\* Phase 4 begins: DAGScheduler(dependencies, config).execute() is entered.
StartExecution ==
  /\ step = "workspaces"
  /\ step' = "executing"
  /\ scheduler' = "execute"
  /\ max_concurrent_agents' \in 1..MaxConcurrent
  /\ debug_agent_enabled' = FALSE
  /\ depth' = 1
  /\ pc' = "loop"
  /\ ts_state' = [npredecessors |-> Sorter.npredecessors, ready_nodes |-> prepare(Sorter),
                  npassedout |-> 0, nfinished |-> 0]
  /\ results' = [a \in DOMAIN agent_status |-> "none"]
  /\ launch_count' = [a \in DOMAIN agent_status |-> 0]
  /\ level' = 1
  /\ index' = 1
  /\ UNCHANGED <<sub_tasks, max_depth, validation, execution_plan, active_agents, task_done, agent_status, failing, retries,
                 abandoned, debug_agents, mvars, gvars>>

PlanNext ==
  \/ Decompose
  \/ ValidateDependencies
  \/ ComputeExecutionPlan
  \/ SetupWorkspaces
  \/ StartExecution

SpecPlan == PlanInit /\ [][PlanNext]_vars

\* TopologicalSorter.is_active
is_active(st) == st.nfinished < st.npassedout \/ st.ready_nodes # <<>>

\* TopologicalSorter.get_ready: the ready nodes are passed out and forgotten.
get_ready(st) ==
  [st EXCEPT !.ready_nodes = <<>>, !.npassedout = @ + Len(st.ready_nodes)]

\* Variant: every ready agent is launched, whatever is already running.
launched_unbounded(ready, active, limit) == ready

\* for agent_id in ready: if len(active_agents) < max_concurrent_agents:
\* launch. The agents of ready that find no free slot are not launched.
launched_from(ready, active, limit) ==
  SubSeq(ready, 1, Min(Len(ready), limit - Len(active)))

\* level.agents[:config.max_concurrent_agents]
batch_of(agents, limit) == SubSeq(agents, 1, Min(Len(agents), limit))

\* level.parallelizable, as dependencies.yaml sets it: more than one agent.
parallelizable(agents) == Len(agents) > 1

\* can_launch_agent(agent_id, dependencies, statuses): False as soon as one
\* dependency's status is not completed.
can_launch_agent(agent_id, dependencies, statuses) ==
  \A dep_id \in dependencies[agent_id] : statuses[dep_id] = "completed"

\* Handling Dependencies: before an agent of execute_dag is launched, all its
\* dependencies are ensured to be satisfied; the others are not launched.
launchable(agents) ==
  SelectInOrder(agents, {a \in Range(agents) :
                           can_launch_agent(a, build_graph(sub_tasks).deps, agent_status)})

\* launch_agent / launch_sub_agent: the agent starts and reports in-progress.
Launch(launched) ==
  /\ agent_status' = [a \in DOMAIN agent_status |->
                        IF a \in Range(launched) THEN "in-progress" ELSE agent_status[a]]
  /\ launch_count' = [a \in DOMAIN launch_count |->
                        launch_count[a] + IF a \in Range(launched) THEN 1 ELSE 0]

RunInit ==
  /\ step = "planned"
  /\ sub_tasks \in DagInputs
  /\ max_depth = DefaultMaxDepth
  /\ validation = validate(sub_tasks, max_depth)
  /\ execution_plan = topological_sort(sub_tasks)
  /\ scheduler \in {"execute", "execute_dag"}
  /\ max_concurrent_agents \in 1..MaxConcurrent
  /\ pc = IF scheduler = "execute" THEN "loop" ELSE "level"
  /\ ts_state = [npredecessors |-> Sorter.npredecessors, ready_nodes |-> prepare(Sorter),
                 npassedout |-> 0, nfinished |-> 0]
  /\ active_agents = <<>>
  /\ task_done = {}
  /\ agent_status = [a \in Agents |-> "pending"]
  /\ results = [a \in Agents |-> "none"]
  /\ launch_count = [a \in Agents |-> 0]
  /\ level = 1
  /\ index = 1
  /\ failing = NoAgent
  /\ retries = 0
  /\ abandoned = {}
  /\ debug_agent_enabled \in BOOLEAN
  /\ depth \in {1, max_depth}
  /\ debug_agents = {}
  /\ NoMonitor
  /\ NoGovernor

\* A launched agent finishes its task and writes completed.
AgentCompletes(a) ==
  /\ pc \in {"wait", "gather", "seq_wait", "retry_wait"}
  /\ a \in Range(active_agents) \ task_done
  /\ agent_status' = [agent_status EXCEPT ![a] = "completed"]
  /\ task_done' = task_done \cup {a}
  /\ UNCHANGED <<pvars, mvars, gvars, cvars, debug_agents, pc, ts_state, active_agents,
                 results, launch_count, level, index, failing, retries, abandoned>>

\* A launched agent records an error: its status becomes failed.
AgentFails(a) ==
  /\ pc \in {"wait", "gather", "seq_wait", "retry_wait"}
  /\ a \in Range(active_agents) \ task_done
  /\ agent_status' = [agent_status EXCEPT ![a] = "failed"]
  /\ task_done' = task_done \cup {a}
  /\ UNCHANGED <<pvars, mvars, gvars, cvars, debug_agents, pc, ts_state, active_agents,
                 results, launch_count, level, index, failing, retries, abandoned>>

(***************************************************************************)
(* DAGScheduler.execute                                                    *)
(***************************************************************************)

\* Top of the while loop: ready = ts.get_ready(), then the launch loop.
DispatchReady ==
  /\ scheduler = "execute"
  /\ pc = "loop"
  /\ is_active(ts_state)
  /\ LET launched == launched_from(ts_state.ready_nodes, active_agents, max_concurrent_agents)
     IN /\ ts_state' = get_ready(ts_state)
        /\ active_agents' = active_agents \o launched
        /\ Launch(launched)
        /\ pc' = IF active_agents' # <<>> THEN "wait" ELSE "loop"
  /\ UNCHANGED <<pvars, mvars, gvars, cvars, debug_agents, task_done, results, level, index,
                 failing, retries, abandoned>>

\* asyncio.wait(FIRST_COMPLETED) returns: every finished task is recorded,
\* marked done in the sorter whatever its result, and leaves the active list.
ReapDone ==
  /\ scheduler = "execute"
  /\ pc = "wait"
  /\ task_done # {}
  /\ \E order \in Perms(task_done) :
       ts_state' = [ts_done_all(Sorter, ts_state, order) EXCEPT
                      !.nfinished = @ + Cardinality(task_done)]
  /\ results' = [a \in DOMAIN results |->
                   IF a \in task_done THEN agent_status[a] ELSE results[a]]
  /\ active_agents' = SelectInOrder(active_agents, Range(active_agents) \ task_done)
  /\ task_done' = {}
  /\ pc' = "loop"
  /\ UNCHANGED <<pvars, mvars, gvars, cvars, debug_agents, agent_status, launch_count, level,
                 index, failing, retries, abandoned>>

\* ts.is_active() is false: return results.
ExecuteReturns ==
  /\ scheduler = "execute"
  /\ pc = "loop"
  /\ ~is_active(ts_state)
  /\ pc' = "returned"
  /\ UNCHANGED <<pvars, mvars, gvars, cvars, debug_agents, ts_state, active_agents, task_done,
                 agent_status, results, launch_count, level, index, failing, retries,
                 abandoned>>

(***************************************************************************)
(* execute_dag                                                             *)
(***************************************************************************)

\* Where execute_dag continues after handle_failure returns: the loop over
\* the gathered results, or the sequential loop over the level's agents.
resume == IF parallelizable(execution_plan[level]) THEN "check" ELSE "seq"

\* for level in execution_plan.levels: the parallel branch launches the
\* level's batch at once, the sequential branch enters its loop.
StartLevel ==
  /\ scheduler = "execute_dag"
  /\ pc = "level"
  /\ level <= Len(execution_plan)
  /\ LET agents == execution_plan[level]
     IN IF parallelizable(agents)
        THEN /\ active_agents' = launchable(batch_of(agents, max_concurrent_agents))
             /\ Launch(launchable(batch_of(agents, max_concurrent_agents)))
             /\ pc' = "gather"
        ELSE /\ pc' = "seq"
             /\ UNCHANGED <<active_agents, agent_status, launch_count>>
  /\ index' = 1
  /\ UNCHANGED <<pvars, mvars, gvars, cvars, debug_agents, ts_state, task_done, results, level,
                 failing, retries, abandoned>>

\* results = await asyncio.gather(*tasks): every task of the batch is over.
GatherReturns ==
  /\ scheduler = "execute_dag"
  /\ pc = "gather"
  /\ task_done = Range(active_agents)
  /\ results' = [a \in DOMAIN results |->
                   IF a \in task_done THEN agent_status[a] ELSE results[a]]
  /\ active_agents' = <<>>
  /\ task_done' = {}
  /\ index' = 1
  /\ pc' = "check"
  /\ UNCHANGED <<pvars, mvars, gvars, cvars, debug_agents, ts_state, agent_status, launch_count,
                 level, failing, retries, abandoned>>

\* for result in results: if result.status == "failed": handle_failure(...).
\* The loop runs to its next failed result, or to its end and the next level.
CheckResults ==
  /\ scheduler = "execute_dag"
  /\ pc = "check"
  /\ LET batch == batch_of(execution_plan[level], max_concurrent_agents)
         failed == {i \in index..Len(batch) : results[batch[i]] = "failed"}
     IN IF failed = {}
        THEN /\ level' = level + 1
             /\ index' = 1
             /\ pc' = "level"
             /\ UNCHANGED failing
        ELSE LET i == CHOOSE j \in failed : \A k \in failed : j <= k
             IN /\ failing' = batch[i]
                /\ index' = i + 1
                /\ pc' = "debug"
                /\ UNCHANGED level
  /\ UNCHANGED <<pvars, mvars, gvars, cvars, debug_agents, ts_state, active_agents, task_done,
                 agent_status, results, launch_count, retries, abandoned>>

\* for agent_id in level.agents: result = await launch_sub_agent(agent_id)
SeqNext ==
  /\ scheduler = "execute_dag"
  /\ pc = "seq"
  /\ LET agents == execution_plan[level]
     IN IF index <= Len(agents)
        THEN IF launchable(<<agents[index]>>) # <<>>
             THEN /\ active_agents' = <<agents[index]>>
                  /\ Launch(<<agents[index]>>)
                  /\ pc' = "seq_wait"
                  /\ UNCHANGED <<level, index>>
             ELSE /\ index' = index + 1
                  /\ UNCHANGED <<level, pc, active_agents, agent_status, launch_count>>
        ELSE /\ level' = level + 1
             /\ index' = 1
             /\ pc' = "level"
             /\ UNCHANGED <<active_agents, agent_status, launch_count>>
  /\ UNCHANGED <<pvars, mvars, gvars, cvars, debug_agents, ts_state, task_done, results, failing,
                 retries, abandoned>>

\* The awaited agent is over: if result.status == "failed": handle_failure.
SeqReturns ==
  /\ scheduler = "execute_dag"
  /\ pc = "seq_wait"
  /\ task_done = Range(active_agents)
  /\ LET a == active_agents[1]
     IN /\ results' = [results EXCEPT ![a] = agent_status[a]]
        /\ IF agent_status[a] = "failed"
           THEN failing' = a /\ pc' = "debug"
           ELSE pc' = "seq" /\ UNCHANGED failing
  /\ active_agents' = <<>>
  /\ task_done' = {}
  /\ index' = index + 1
  /\ UNCHANGED <<pvars, mvars, gvars, cvars, debug_agents, ts_state, agent_status, launch_count,
                 level, retries, abandoned>>

\* Every level has been run.
ExecuteDagReturns ==
  /\ scheduler = "execute_dag"
  /\ pc = "level"
  /\ level > Len(execution_plan)
  /\ pc' = "finished"
  /\ UNCHANGED <<pvars, mvars, gvars, cvars, debug_agents, ts_state, active_agents, task_done,
                 agent_status, results, launch_count, level, index, failing, retries,
                 abandoned>>

(***************************************************************************)
(* Failure handling: handle_agent_failure and retry_agent.  What a debug   *)
(* agent reports is its own choice.                                        *)
(***************************************************************************)

\* mark_as_failed(agent_id): the agent is failed for good.
mark_as_failed(a) ==
  /\ agent_status' = [agent_status EXCEPT ![a] = "failed"]
  /\ abandoned' = abandoned \cup {a}

\* A debug agent reports retry_suggested true or false, or fails itself.
DebugOutcomes == {"retry", "no_retry", "debug_failed"}

\* debug_agent_id = f"{agent_id}-debug"
debug_agent_id(agent_id) == agent_id \o "-debug"

\* Variant: a failed debug agent is diagnosed by a debug agent of its own.
debug_sub_agents_diagnosed(d, outcome) ==
  IF outcome = "debug_failed"
  THEN {[debug_agent_id |-> debug_agent_id(d.debug_agent_id), parent |-> d.debug_agent_id,
         n |-> 1]}
  ELSE {}

\* The agents a debug agent creates: it CANNOT create sub-agents, and when
\* it fails the fallback is a simple retry or manual intervention.
debug_sub_agents(d, outcome) == {}

\* launch_debug_agent(debug_agent_id, agent_id, status) and its outcome; n is
\* the number of debug agents the failed agent has had.
launch_debug_agent(agent_id, outcome) ==
  LET d == [debug_agent_id |-> debug_agent_id(agent_id), parent |-> agent_id,
            n |-> 1 + Cardinality({e \in debug_agents : e.parent = agent_id})]
  IN debug_agents' = debug_agents \cup {d} \cup debug_sub_agents(d, outcome)

\* debug_result.retry_suggested; after a failed debug agent the fallback is
\* a simple retry (TRUE) or manual intervention (FALSE).
retry_suggested(outcome, fallback) ==
  outcome = "retry" \/ (outcome = "debug_failed" /\ fallback)

\* Variant: only an agent beyond max_depth is refused a debug agent.
cannot_debug_beyond(d, limit) == d > limit

\* status.depth >= config.resource_limits.max_depth
cannot_debug(d, limit) == d >= limit

\* retry_or_fail(agent_id, status): the agent stays failed.
retry_or_fail(a) == mark_as_failed(a)

\* handle_agent_failure: without debug agents, or at max_depth, retry_or_fail;
\* else the debug agent reports and retry_agent starts with retries = 0 or
\* the agent is marked as failed.
HandleAgentFailure ==
  /\ pc = "debug"
  /\ IF ~debug_agent_enabled \/ cannot_debug(depth, max_depth)
     THEN /\ retry_or_fail(failing)
          /\ pc' = resume
          /\ failing' = NoAgent
          /\ UNCHANGED <<retries, debug_agents>>
     ELSE \E outcome \in DebugOutcomes, fallback \in BOOLEAN :
            /\ launch_debug_agent(failing, outcome)
            /\ IF retry_suggested(outcome, fallback)
               THEN /\ retries' = 0
                    /\ pc' = "retry_loop"
                    /\ UNCHANGED <<agent_status, abandoned, failing>>
               ELSE /\ mark_as_failed(failing)
                    /\ pc' = resume
                    /\ failing' = NoAgent
                    /\ UNCHANGED retries
  /\ UNCHANGED <<pvars, mvars, gvars, cvars, ts_state, active_agents, task_done,
                 results, launch_count, level, index>>

\* Variant: the loop admits one attempt more.
may_retry_inclusive(n) == n <= max_retries

\* while retries < max_retries
may_retry(n) == n < max_retries

\* Top of the while loop of retry_agent: another launch_agent(agent_id), or
\* the loop is left and mark_as_failed(agent_id, "Max retries exceeded").
RetryAgent ==
  /\ pc = "retry_loop"
  /\ IF may_retry(retries)
     THEN /\ active_agents' = <<failing>>
          /\ Launch(<<failing>>)
          /\ pc' = "retry_wait"
          /\ UNCHANGED <<failing, abandoned>>
     ELSE /\ mark_as_failed(failing)
          /\ pc' = resume
          /\ failing' = NoAgent
          /\ UNCHANGED <<active_agents, launch_count>>
  /\ UNCHANGED <<pvars, mvars, gvars, cvars, debug_agents, ts_state, task_done, results, level,
                 index, retries>>

\* The relaunched agent is over.  completed: return result.  failed: the
\* debug agent reports again; without a suggestion the result is returned
\* (give up), with one retries += 1 and reset_agent_status(agent_id).
RetryReturns ==
  /\ pc = "retry_wait"
  /\ task_done = Range(active_agents)
  /\ active_agents' = <<>>
  /\ task_done' = {}
  /\ IF agent_status[failing] = "completed"
     THEN /\ pc' = resume
          /\ failing' = NoAgent
          /\ UNCHANGED <<agent_status, retries, abandoned, debug_agents>>
     ELSE \E outcome \in DebugOutcomes, fallback \in BOOLEAN :
            /\ launch_debug_agent(failing, outcome)
            /\ IF retry_suggested(outcome, fallback)
               THEN /\ retries' = retries + 1
                    /\ agent_status' = [agent_status EXCEPT ![failing] = "pending"]
                    /\ pc' = "retry_loop"
                    /\ UNCHANGED <<failing, abandoned>>
               ELSE /\ abandoned' = abandoned \cup {failing}
                    /\ pc' = resume
                    /\ failing' = NoAgent
                    /\ UNCHANGED <<agent_status, retries>>
  /\ UNCHANGED <<pvars, mvars, gvars, cvars, ts_state, results, launch_count, level, index>>

Init == RunInit

Next ==
  \/ \E a \in Agents : AgentCompletes(a)
  \/ \E a \in Agents : AgentFails(a)
  \/ DispatchReady
  \/ ReapDone
  \/ ExecuteReturns
  \/ StartLevel
  \/ GatherReturns
  \/ CheckResults
  \/ SeqNext
  \/ SeqReturns
  \/ ExecuteDagReturns
  \/ HandleAgentFailure
  \/ RetryAgent
  \/ RetryReturns

Spec == Init /\ [][Next]_vars

(***************************************************************************)
(* The status file of one agent, the agent that writes it and the master   *)
(* that watches it: StatusFileManager, monitor_agent, execute_with_timeout.*)
(***************************************************************************)

\* Last tick of the clock.
MaxTime == 6

\* Largest single_agent_timeout_minutes, in ticks.
MaxTimeout == 2

\* Largest poll_interval_seconds, in ticks.
MaxPoll == 2

\* The document of a status file: status, updated_at (started_at while the
\* agent is in progress), last error.  write_yaml writes it front to back.
Document(status, updated_at, error) == <<status, updated_at, error>>

\* read_yaml: the parsed document; unreadable when a part is missing.
read_yaml(file) ==
  IF Len(file) = 3
  THEN [status |-> file[1], updated_at |-> file[2], error |-> file[3]]
  ELSE [status |-> "unreadable", updated_at |-> 0, error |-> "none"]

\* Variant: the document is written into the status file itself.
write_yaml_in_place(fs, data, k) ==
  IF k = 1 THEN [fs EXCEPT !.status_file = SubSeq(data, 1, 1)]
  ELSE IF k = 2 THEN [fs EXCEPT !.status_file = data]
  ELSE fs

\* Atomic YAML writes (temp file + rename): step 1 and 2 write the temp
\* file, step 3 renames it onto the status file.
write_yaml(fs, data, k) ==
  IF k = 1 THEN [fs EXCEPT !.temp_file = SubSeq(data, 1, 1)]
  ELSE IF k = 2 THEN [fs EXCEPT !.temp_file = data]
  ELSE [fs EXCEPT !.status_file = fs.temp_file, !.temp_file = <<>>]

\* write_yaml run from its first to its last step by another writer than the
\* agent, with a temp file of its own.
write_yaml_whole(fs, data) ==
  LET own == [status_file |-> fs.status_file, temp_file |-> <<>>]
  IN [fs EXCEPT !.status_file =
        write_yaml(write_yaml(write_yaml(own, data, 1), data, 2), data, 3).status_file]

\* timeout_exceeded(status, config.single_agent_timeout_minutes)
timeout_exceeded(status, timeout) == now - status.updated_at > timeout

\* The agent has been launched at tick 0 and has written in-progress; the
\* master starts to watch it.
MonitorInit ==
  /\ NoPlan
  /\ NoRun
  /\ NoGovernor
  /\ watch \in {"monitor_agent", "execute_with_timeout"}
  /\ single_agent_timeout_minutes \in 1..MaxTimeout
  /\ poll_interval_seconds \in 1..MaxPoll
  /\ now = 0
  /\ file_system = [status_file |-> Document("in-progress", 0, "none"), temp_file |-> <<>>]
  /\ worker = [pc |-> "running", data |-> <<>>, k |-> 0]
  /\ monitor = [pc |-> "waiting",
                wake |-> IF watch = "monitor_agent" THEN 0 ELSE single_agent_timeout_minutes,
                result |-> "none", debug_triggered |-> FALSE, timed_out |-> FALSE,
                marked_at |-> 0]
  /\ write_log = {[writer |-> "agent", data |-> Document("in-progress", 0, "none")]}
  /\ observed = {}

\* Time passes, but not beyond the instant the master is due to act.
Tick ==
  /\ watch # "none"
  /\ now < MaxTime
  /\ monitor.pc = "returned" \/ now < monitor.wake
  /\ now' = now + 1
  /\ UNCHANGED <<pvars, dvars, gvars, watch, single_agent_timeout_minutes, poll_interval_seconds,
                 file_system, worker, monitor, write_log, observed>>

\* StatusFileManager.update_status("completed") or record_error(...) by the
\* agent: the new document is made and write_yaml takes its first step.
\* The agent does so whether or not the master still watches it.
WorkerWrites(new_status, error) ==
  /\ worker.pc = "running"
  /\ LET data == Document(new_status, now, error)
     IN /\ file_system' = write_yaml(file_system, data, 1)
        /\ worker' = [pc |-> "writing", data |-> data, k |-> 2]
        /\ write_log' = write_log \cup {[writer |-> "agent", data |-> data]}
  /\ UNCHANGED <<pvars, dvars, gvars, watch, single_agent_timeout_minutes, poll_interval_seconds,
                 now, monitor, observed>>

\* The next step of the agent's write_yaml; the agent exits after the last.
WorkerWriteStep ==
  /\ worker.pc = "writing"
  /\ file_system' = write_yaml(file_system, worker.data, worker.k)
  /\ worker' = IF worker.k = 3 THEN [worker EXCEPT !.pc = "exited"]
               ELSE [worker EXCEPT !.k = @ + 1]
  /\ UNCHANGED <<pvars, dvars, gvars, watch, single_agent_timeout_minutes, poll_interval_seconds,
                 now, monitor, write_log, observed>>

\* mark_as_failed(agent_id, message), called by the master: the status file
\* gets status failed and the error.
master_mark_as_failed(message) ==
  LET data == Document("failed", now, message)
  IN /\ file_system' = write_yaml_whole(file_system, data)
     /\ write_log' = write_log \cup {[writer |-> "master", data |-> data]}

\* Variant: the timeout is looked at before the recorded status.
poll_branch_deadline_first(status, timeout) ==
  IF timeout_exceeded(status, timeout) THEN "timeout"
  ELSE IF status.status = "completed" THEN "completed"
  ELSE IF status.status = "failed" THEN "failed"
  ELSE "sleep"

\* The if / elif chain of monitor_agent: completed, then failed, then the
\* timeout, else sleep.
poll_branch(status, timeout) ==
  IF status.status = "completed" THEN "completed"
  ELSE IF status.status = "failed" THEN "failed"
  ELSE IF timeout_exceeded(status, timeout) THEN "timeout"
  ELSE "sleep"

\* One round of the loop of monitor_agent: read the status file, return on
\* completed, trigger the debug agent on failed, mark as failed on timeout,
\* else sleep(poll_interval_seconds).
Poll ==
  /\ watch = "monitor_agent"
  /\ monitor.pc = "waiting"
  /\ now = monitor.wake
  /\ LET status == read_yaml(file_system.status_file)
         branch == poll_branch(status, single_agent_timeout_minutes)
     IN /\ observed' = observed \cup {file_system.status_file}
        /\ IF branch = "completed"
           THEN /\ monitor' = [monitor EXCEPT !.pc = "returned", !.result = "completed"]
                /\ UNCHANGED <<file_system, write_log>>
           ELSE IF branch = "failed"
           THEN /\ monitor' = [monitor EXCEPT !.pc = "returned", !.result = "failed",
                                              !.debug_triggered = TRUE]
                /\ UNCHANGED <<file_system, write_log>>
           ELSE IF branch = "timeout"
           THEN /\ monitor' = [monitor EXCEPT !.pc = "returned", !.result = "failed",
                                              !.timed_out = TRUE, !.marked_at = now]
                /\ master_mark_as_failed("Timeout exceeded")
           ELSE /\ monitor' = [monitor EXCEPT !.wake = now + poll_interval_seconds]
                /\ UNCHANGED <<file_system, write_log>>
  /\ UNCHANGED <<pvars, dvars, gvars, watch, single_agent_timeout_minutes, poll_interval_seconds,
                 now, worker>>

\* execute_with_timeout: launch_agent returns its result before the timeout.
LaunchReturns ==
  /\ watch = "execute_with_timeout"
  /\ monitor.pc = "waiting"
  /\ worker.pc = "exited"
  /\ monitor' = [monitor EXCEPT !.pc = "returned",
                                !.result = read_yaml(file_system.status_file).status]
  /\ observed' = observed \cup {file_system.status_file}
  /\ UNCHANGED <<pvars, dvars, gvars, watch, single_agent_timeout_minutes, poll_interval_seconds,
                 now, file_system, worker, write_log>>

\* execute_with_timeout: asyncio.TimeoutError; mark_as_failed and return None.
TimeoutError ==
  /\ watch = "execute_with_timeout"
  /\ monitor.pc = "waiting"
  /\ worker.pc # "exited"
  /\ now = monitor.wake
  /\ monitor' = [monitor EXCEPT !.pc = "returned", !.result = "failed", !.timed_out = TRUE,
                                !.marked_at = now]
  /\ master_mark_as_failed("Execution timeout")
  /\ UNCHANGED <<pvars, dvars, gvars, watch, single_agent_timeout_minutes, poll_interval_seconds,
                 now, worker, observed>>

MonitorNext ==
  \/ Tick
  \/ WorkerWrites("completed", "none")
  \/ WorkerWrites("failed", "error")
  \/ WorkerWriteStep
  \/ Poll
  \/ LaunchReturns
  \/ TimeoutError

SpecMonitor == MonitorInit /\ [][MonitorNext]_vars

(***************************************************************************)
(* AgentCountLimiter                                                       *)
(***************************************************************************)

\* Largest max_total and max_depth a limiter is constructed with, and the
\* most answers of can_create a caller holds before it registers.
MaxTotal == 3
MaxLimiterDepth == 2
MaxPending == 2

\* The parent_id of an agent created by the master itself: not registered.
Master == 0

\* self.agent_depths.get(parent_id, 0)
parent_depth(l, parent_id) ==
  IF parent_id \in DOMAIN l.agent_depths THEN l.agent_depths[parent_id] ELSE 0

\* can_create with the total count compared by > instead of >=.
can_create_beyond(l, parent_id) ==
  IF l.current_count > l.max_total THEN "Max total agents reached"
  ELSE IF parent_depth(l, parent_id) + 1 > l.max_depth THEN "Max depth exceeded"
  ELSE "True"

\* can_create with the depth of the parent compared instead of the child's.
can_create_deeper(l, parent_id) ==
  IF l.current_count >= l.max_total THEN "Max total agents reached"
  ELSE IF parent_depth(l, parent_id) > l.max_depth THEN "Max depth exceeded"
  ELSE "True"

\* can_create_subagent(current_depth, config) of Phase 8.
can_create_subagent(current_depth, limit) == ~(current_depth >= limit)

\* AgentCountLimiter.can_create: "True", or the reason that comes with False.
can_create(l, parent_id) ==
  IF l.current_count >= l.max_total THEN "Max total agents reached"
  ELSE IF parent_depth(l, parent_id) + 1 > l.max_depth THEN "Max depth exceeded"
  ELSE "True"

\* can_create_agent(current_count, config) of Phase 8.
can_create_agent(current_count, max_total_agents) ==
  ~(current_count >= max_total_agents)

\* AgentCountLimiter.register; agent ids are 1, 2, ... in order of registration.
register(l, agent_id, parent_id) ==
  [l EXCEPT !.current_count = @ + 1,
            !.agent_depths = [a \in DOMAIN @ \cup {agent_id} |->
                                IF a = agent_id THEN parent_depth(l, parent_id) + 1
                                ELSE @[a]]]

RemoveAt(seq, i) == SubSeq(seq, 1, i - 1) \o SubSeq(seq, i + 1, Len(seq))

\* AgentCountLimiter(max_total, max_depth)
LimiterInit ==
  /\ NoPlan
  /\ NoRun
  /\ NoMonitor
  /\ \E max_total \in 1..MaxTotal, limit \in 1..MaxLimiterDepth :
       limiter = [max_total |-> max_total, max_depth |-> limit, current_count |-> 0,
                  agent_depths |-> <<>>]
  /\ admissions = <<>>
  /\ last_check = [count |-> 0, answer |-> "none"]
  /\ registrations = <<>>
  /\ tracker = NoTracker
  /\ governor = [tracked |-> FALSE, warnings |-> 0, raised |-> "none"]
  /\ plan_runs = <<>>
  /\ NoMetrics

\* A caller asks whether parent_id may create an agent; an answer True is
\* kept until the caller registers the agent.
CanCreate(parent_id) ==
  /\ limiter.max_total > 0
  /\ Len(admissions) < MaxPending
  /\ LET answer == can_create(limiter, parent_id)
     IN /\ last_check' = [count |-> limiter.current_count, answer |-> answer]
        /\ admissions' = IF answer = "True"
                         THEN Append(admissions, [parent_id |-> parent_id,
                                                  count |-> limiter.current_count])
                         ELSE admissions
  /\ UNCHANGED <<pvars, dvars, mvars, limiter, registrations, tracker, governor, plan_runs, evars>>

\* The caller registers an agent for which can_create has answered True.
Register(i) ==
  /\ i \in DOMAIN admissions
  /\ LET agent_id == limiter.current_count + 1
     IN /\ limiter' = register(limiter, agent_id, admissions[i].parent_id)
        /\ registrations' = Append(registrations,
                                   [agent_id |-> agent_id,
                                    parent_id |-> admissions[i].parent_id,
                                    checked_at |-> admissions[i].count])
  /\ admissions' = RemoveAt(admissions, i)
  /\ UNCHANGED <<pvars, dvars, mvars, last_check, tracker, governor, plan_runs, evars>>

LimiterNext ==
  \/ \E parent_id \in {Master} \cup DOMAIN limiter.agent_depths : CanCreate(parent_id)
  \/ \E i \in 1..MaxPending : Register(i)

SpecLimiter == LimiterInit /\ [][LimiterNext]_vars

(***************************************************************************)
(* CostTracker, and DAGScheduler.execute run under it                      *)
(***************************************************************************)

\* Largest hard limit (USD) and largest token count (in thousands) an agent
\* reports, input and output together.
MaxHardLimit == 3
MaxTokens == 1

\* config.token_price_per_1k, in USD per thousand tokens.
token_price_per_1k == [input |-> 1, output |-> 2]

\* The plans run under the tracker: every agent waits for one agent at most.
GovernorInputs ==
  {l \in DagInputs : \A i \in 1..Len(l) : Cardinality(l[i].depends_on) <= 1}

Usages == {u \in [input : 0..MaxTokens, output : 0..MaxTokens] : u.input + u.output <= MaxTokens}

\* CostTracker.track up to the call of check_limits; tokens in thousands.
track(t, input_tokens, output_tokens) ==
  LET cost == input_tokens * token_price_per_1k.input
              + output_tokens * token_price_per_1k.output
  IN [t EXCEPT !.total_tokens.input = @ + input_tokens,
               !.total_tokens.output = @ + output_tokens,
               !.total_cost = @ + cost]

\* check_limits with the hard limit compared by > instead of >=.
check_limits_beyond(t) ==
  IF t.total_cost > t.hard_limit_usd THEN "CostLimitExceeded"
  ELSE IF t.total_cost >= t.warning_threshold_usd THEN "warning"
  ELSE "ok"

\* CostTracker.check_limits: the exception raised, the warning logged, or
\* nothing.
check_limits(t) ==
  IF t.total_cost >= t.hard_limit_usd THEN "CostLimitExceeded"
  ELSE IF t.total_cost >= t.warning_threshold_usd THEN "warning"
  ELSE "ok"

\* check_cost_limits(total_cost, config) of Phase 8.
check_cost_limits(total_cost, hard_limit_usd, warning_threshold_usd) ==
  IF total_cost >= hard_limit_usd THEN "CostLimitExceeded"
  ELSE IF total_cost >= warning_threshold_usd THEN "warning"
  ELSE "ok"

\* The loop over the finished tasks of DAGScheduler.execute, with the usage
\* of each agent tracked when its result is taken.  CostLimitExceeded is
\* caught nowhere: it ends the loop and execute with it.
RECURSIVE reap_tracked(_, _, _)
reap_tracked(st, order, usage) ==
  IF order = <<>> \/ st.raised # "none" THEN st
  ELSE LET agent_id == Head(order)
           t == track(st.tracker, usage[agent_id].input, usage[agent_id].output)
           outcome == check_limits(t)
       IN reap_tracked(
            IF outcome = "CostLimitExceeded"
            THEN [st EXCEPT !.tracker = t, !.raised = outcome]
            ELSE [st EXCEPT !.tracker = t,
                            !.warnings = @ + IF outcome = "warning" THEN 1 ELSE 0,
                            !.results[agent_id] = agent_status[agent_id],
                            !.ts_state = [ts_done(Sorter, @, agent_id) EXCEPT
                                            !.nfinished = @ + 1],
                            !.reaped = @ \cup {agent_id}],
            Tail(order), usage)

\* DAGScheduler(dependencies, config).execute() with a CostTracker(config).
GovernorInit ==
  /\ step = "planned"
  /\ sub_tasks \in GovernorInputs
  /\ max_depth = DefaultMaxDepth
  /\ validation = validate(sub_tasks, max_depth)
  /\ execution_plan = topological_sort(sub_tasks)
  /\ scheduler = "execute"
  /\ max_concurrent_agents \in 1..MaxConcurrent
  /\ pc = "loop"
  /\ ts_state = [npredecessors |-> Sorter.npredecessors, ready_nodes |-> prepare(Sorter),
                 npassedout |-> 0, nfinished |-> 0]
  /\ active_agents = <<>>
  /\ task_done = {}
  /\ agent_status = [a \in Agents |-> "pending"]
  /\ results = [a \in Agents |-> "none"]
  /\ launch_count = [a \in Agents |-> 0]
  /\ level = 1
  /\ index = 1
  /\ failing = NoAgent
  /\ retries = 0
  /\ abandoned = {}
  /\ debug_agent_enabled = FALSE
  /\ depth = 1
  /\ debug_agents = {}
  /\ NoMonitor
  /\ limiter = [max_total |-> 0, max_depth |-> 0, current_count |-> 0, agent_depths |-> <<>>]
  /\ admissions = <<>>
  /\ last_check = [count |-> 0, answer |-> "none"]
  /\ registrations = <<>>
  /\ \E hard \in 2..MaxHardLimit, warning \in 1..MaxHardLimit :
       /\ warning < hard
       /\ tracker = [NoTracker EXCEPT !.hard_limit_usd = hard,
                                      !.warning_threshold_usd = warning]
  /\ governor = [tracked |-> TRUE, warnings |-> 0, raised |-> "none"]
  /\ plan_runs = <<>>
  /\ NoMetrics

\* asyncio.wait(FIRST_COMPLETED) returns and the finished tasks are taken one
\* by one, each with its usage tracked.
TrackedReap ==
  /\ governor.tracked
  /\ scheduler = "execute"
  /\ pc = "wait"
  /\ task_done # {}
  /\ \E order \in Perms(task_done), usage \in [task_done -> Usages] :
       LET st == reap_tracked([tracker |-> tracker, warnings |-> governor.warnings,
                               raised |-> "none", results |-> results,
                               ts_state |-> ts_state, reaped |-> {}], order, usage)
       IN /\ tracker' = st.tracker
          /\ governor' = [governor EXCEPT !.warnings = st.warnings, !.raised = st.raised]
          /\ results' = st.results
          /\ ts_state' = st.ts_state
          /\ active_agents' = SelectInOrder(active_agents, Range(active_agents) \ st.reaped)
          /\ task_done' = task_done \ st.reaped
          /\ pc' = IF st.raised # "none" THEN "raised" ELSE "loop"
  /\ UNCHANGED <<pvars, mvars, cvars, lvars, plan_runs, evars, debug_agents, agent_status, launch_count, level,
                 index, failing, retries, abandoned>>

\* A task that was active when execute was left by the exception finishes.
FinishesAfterHalt(a) ==
  /\ pc = "raised"
  /\ a \in Range(active_agents) \ task_done
  /\ agent_status' = [agent_status EXCEPT ![a] = "completed"]
  /\ task_done' = task_done \cup {a}
  /\ UNCHANGED <<pvars, mvars, gvars, cvars, debug_agents, pc, ts_state, active_agents,
                 results, launch_count, level, index, failing, retries, abandoned>>

GovernorNext ==
  \/ \E a \in Agents : AgentCompletes(a)
  \/ DispatchReady
  \/ TrackedReap
  \/ ExecuteReturns
  \/ \E a \in Agents : FinishesAfterHalt(a)

SpecGovernor == GovernorInit /\ [][GovernorNext]_vars

(***************************************************************************)
(* DAGScheduler.execute with the agent count limit of Phase 8              *)
(***************************************************************************)

\* Variant: the count handed to can_create_agent is the number of agents
\* that are active, not the number created in the run.
total_agents_active(l, active) == Len(active)

\* current_count, as can_create_agent is given it: the agents created so far
\* in the run.
total_agents_created(l, active) == l.current_count

\* The launch loop of execute, each launch asking can_create_agent first:
\* an agent that is denied is not launched, an agent that is admitted is
\* registered and launched.
RECURSIVE admit_launches(_, _, _)
admit_launches(st, ready, active) ==
  IF ready = <<>> THEN st
  ELSE IF ~(Len(active) + Len(st.launched) < max_concurrent_agents)
  THEN admit_launches(st, Tail(ready), active)
  ELSE LET agent_id == Head(ready)
           count == total_agents_created(st.limiter, active \o st.launched)
           admitted == can_create_agent(count, st.limiter.max_total)
           check == [count |-> count,
                     answer |-> IF admitted THEN "True" ELSE "Max total agents reached"]
       IN admit_launches(
            IF admitted
            THEN [launched |-> Append(st.launched, agent_id),
                  limiter |-> register(st.limiter, st.limiter.current_count + 1, Master),
                  last_check |-> check,
                  denied |-> st.denied,
                  registrations |-> Append(st.registrations,
                                           [agent_id |-> st.limiter.current_count + 1,
                                            parent_id |-> Master,
                                            checked_at |-> st.limiter.current_count])]
            ELSE [st EXCEPT !.last_check = check, !.denied = TRUE],
            Tail(ready), active)

\* DAGScheduler(dependencies, config).execute() under config.resource_limits.
AdmissionInit ==
  /\ step = "planned"
  /\ sub_tasks \in GovernorInputs
  /\ max_depth = DefaultMaxDepth
  /\ validation = validate(sub_tasks, max_depth)
  /\ execution_plan = topological_sort(sub_tasks)
  /\ scheduler = "execute"
  /\ max_concurrent_agents \in 1..MaxConcurrent
  /\ pc = "loop"
  /\ ts_state = [npredecessors |-> Sorter.npredecessors, ready_nodes |-> prepare(Sorter),
                 npassedout |-> 0, nfinished |-> 0]
  /\ active_agents = <<>>
  /\ task_done = {}
  /\ agent_status = [a \in Agents |-> "pending"]
  /\ results = [a \in Agents |-> "none"]
  /\ launch_count = [a \in Agents |-> 0]
  /\ level = 1
  /\ index = 1
  /\ failing = NoAgent
  /\ retries = 0
  /\ abandoned = {}
  /\ debug_agent_enabled = FALSE
  /\ depth = 1
  /\ debug_agents = {}
  /\ NoMonitor
  /\ \E max_total \in 1..Cardinality(Agents) :
       limiter = [max_total |-> max_total, max_depth |-> 1, current_count |-> 0,
                  agent_depths |-> <<>>]
  /\ admissions = <<>>
  /\ last_check = [count |-> 0, answer |-> "none"]
  /\ registrations = <<>>
  /\ tracker = NoTracker
  /\ governor = [tracked |-> FALSE, warnings |-> 0, raised |-> "none"]
  /\ plan_runs = <<>>
  /\ NoMetrics

\* Top of the while loop of execute, with the limit asked before each launch.
AdmittedDispatch ==
  /\ limiter.max_total > 0
  /\ scheduler = "execute"
  /\ pc = "loop"
  /\ is_active(ts_state)
  /\ LET st == admit_launches([launched |-> <<>>, limiter |-> limiter,
                               last_check |-> last_check, denied |-> FALSE,
                               registrations |-> registrations],
                              ts_state.ready_nodes, active_agents)
     IN /\ ts_state' = get_ready(ts_state)
        /\ active_agents' = active_agents \o st.launched
        /\ Launch(st.launched)
        /\ limiter' = st.limiter
        /\ last_check' = st.last_check
        /\ registrations' = st.registrations
        /\ governor' = IF st.denied THEN [governor EXCEPT !.raised = "ResourceLimitExceeded"]
                       ELSE governor
        /\ pc' = IF active_agents' # <<>> THEN "wait" ELSE "loop"
  /\ UNCHANGED <<pvars, mvars, cvars, admissions, tracker, plan_runs, evars, debug_agents, task_done, results,
                 level, index, failing, retries, abandoned>>

AdmissionNext ==
  \/ \E a \in Agents : AgentCompletes(a)
  \/ \E a \in Agents : AgentFails(a)
  \/ AdmittedDispatch
  \/ ReapDone
  \/ ExecuteReturns

SpecAdmission == AdmissionInit /\ [][AdmissionNext]_vars

\* The step of ReapDone as the program counter shows it: asyncio.wait has
\* returned with finished tasks and the loop goes back to its top.
WaitReturns ==
  /\ scheduler = "execute"
  /\ pc = "wait"
  /\ task_done # {}
  /\ pc' = "loop"

\* Every launched agent finishes, asyncio.wait returns when one has, and the
\* loop of execute keeps running.
SpecAdmissionFair ==
  /\ SpecAdmission
  /\ WF_vars(\E a \in Agents : AgentCompletes(a) \/ AgentFails(a))
  /\ WF_pc(WaitReturns)
  /\ WF_vars(AdmittedDispatch)

(***************************************************************************)
(* The counters of a run: AgentCountLimiter.current_count and              *)
(* PerformanceMetrics.collect                                              *)
(***************************************************************************)

\* PerformanceMetrics.collect: agent_count is len(agents); peak_concurrent
\* is set to 0 and no statement of collect assigns it again.
collect(agents, active) ==
  [collected |-> TRUE, agent_count |-> Cardinality(agents), peak_concurrent |-> 0]

\* PerformanceMetrics().collect() is called, during the run or after it.
CollectMetrics ==
  /\ scheduler = "execute"
  /\ performance' = collect(DOMAIN agent_status, active_agents)
  /\ UNCHANGED <<pvars, dvars, mvars, lvars, tracker, governor, plan_runs, estimates, metrics,
                 priorities>>

CountersNext ==
  \/ AdmissionNext
  \/ CollectMetrics

SpecCounters == AdmissionInit /\ [][CountersNext]_vars

(***************************************************************************)
(* The loop of DAGScheduler.execute under fair scheduling                  *)
(***************************************************************************)

\* DAGScheduler(dependencies, config).execute() on a validated list.
LoopInit ==
  /\ RunInit
  /\ scheduler = "execute"
  /\ sub_tasks \in GovernorInputs
  /\ ~debug_agent_enabled
  /\ depth = 1

LoopNext ==
  \/ \E a \in Agents : AgentCompletes(a) \/ AgentFails(a)
  \/ DispatchReady
  \/ ReapDone
  \/ ExecuteReturns

SpecLoop == LoopInit /\ [][LoopNext]_vars

\* Every launched agent completes or fails, asyncio.wait returns when one
\* has, and the event loop keeps running the coroutine of execute.
SpecLoopFair ==
  /\ SpecLoop
  /\ WF_vars(\E a \in Agents : AgentCompletes(a) \/ AgentFails(a))
  /\ WF_pc(WaitReturns)
  /\ WF_vars(DispatchReady)
  /\ WF_vars(ExecuteReturns)

(***************************************************************************)
(* Dynamic Dependency Updates: discover_new_task                           *)
(***************************************************************************)

\* Most tasks that sub-agents add to a plan while it runs.
MaxInsertions == 2

\* .memory/dependencies.yaml after Phase 2: a validated list with its plan.
InsertInit ==
  /\ step = "planned"
  /\ sub_tasks \in ListInputs
  /\ max_depth \in 1..MaxDepthBound
  /\ validation = validate(sub_tasks, max_depth)
  /\ validation.ok
  /\ execution_plan = topological_sort(sub_tasks)
  /\ NoRun
  /\ NoMonitor
  /\ NoGovernor

\* discover_new_task up to write_yaml: the sub-agent current_agent_id appends
\* a task that depends on it, under the id generate_agent_id has returned,
\* and writes the list back.
DiscoverNewTask(current_agent_id, agent_id) ==
  /\ step = "planned"
  /\ Len(sub_tasks) < MaxDefs + MaxInsertions
  /\ current_agent_id \in {sub_tasks[i].agent_id : i \in 1..Len(sub_tasks)}
  /\ sub_tasks' = Append(sub_tasks, [agent_id |-> agent_id, depends_on |-> {current_agent_id}])
  /\ step' = "inserted"
  /\ UNCHANGED <<max_depth, validation, execution_plan, dvars, mvars, gvars>>

\* validate_and_plan(deps): the list that was written is validated, and
\* planned when it is valid; an error is raised in the sub-agent.
ValidateAndPlan ==
  /\ step = "inserted"
  /\ validation' = validate(sub_tasks, max_depth)
  /\ IF validation'.ok
     THEN execution_plan' = topological_sort(sub_tasks) /\ step' = "planned"
     ELSE UNCHANGED execution_plan /\ step' = "insert_rejected"
  /\ UNCHANGED <<sub_tasks, max_depth, dvars, mvars, gvars>>

InsertNext ==
  \/ \E current_agent_id \in Agents, agent_id \in Agents :
       DiscoverNewTask(current_agent_id, agent_id)
  \/ ValidateAndPlan

SpecInsert == InsertInit /\ [][InsertNext]_vars

(***************************************************************************)
(* generate_agent_id, as the loop of TaskDecomposer.decompose calls it     *)
(***************************************************************************)

\* component.description of the components that are extracted.
Descriptions == <<"Design API schema", "Implement backend API">>

\* hashlib.sha256(input_str.encode()).hexdigest()[:6]: a fixed function of
\* the timestamp, the description and the parent into the ids there are;
\* the ids are fewer than the inputs.
sha256_prefix(timestamp, task_description, parent_id) ==
  NameOrder[((timestamp + IndexOf(Descriptions, task_description)
              + IF parent_id = "master" THEN 0 ELSE 1) % Len(NameOrder)) + 1]

\* generate_agent_id(task_description, parent_id="master") called at time
\* timestamp: no registry is consulted.
generate_agent_id(task_description, parent_id, timestamp) ==
  sha256_prefix(timestamp, task_description, parent_id)

\* decompose is entered; components have been extracted.
IdInit ==
  /\ step = "components"
  /\ sub_tasks = <<>>
  /\ max_depth \in 1..MaxDepthBound
  /\ validation = NoError
  /\ execution_plan = <<>>
  /\ NoRun
  /\ NoMonitor
  /\ NoGovernor

\* datetime.utcnow() moves on between two calls, or does not.
ClockAdvances ==
  /\ step = "components"
  /\ now < MaxTime
  /\ now' = now + 1
  /\ UNCHANGED <<pvars, dvars, gvars, watch, single_agent_timeout_minutes,
                 poll_interval_seconds, file_system, worker, monitor, write_log, observed>>

\* One pass of the loop of step 2: the id is generated and the sub-task is
\* appended.
AppendSubTask(description) ==
  /\ step = "components"
  /\ Len(sub_tasks) < MaxDefs
  /\ sub_tasks' = Append(sub_tasks,
                         [agent_id |-> generate_agent_id(description, "master", now),
                          depends_on |-> {}])
  /\ UNCHANGED <<step, max_depth, validation, execution_plan, dvars, mvars, gvars>>

\* The loop is over: step 3 is next.
ComponentsDone ==
  /\ step = "components"
  /\ sub_tasks # <<>>
  /\ step' = "validate"
  /\ UNCHANGED <<sub_tasks, max_depth, validation, execution_plan, dvars, mvars, gvars>>

IdNext ==
  \/ ClockAdvances
  \/ \E description \in Range(Descriptions) : AppendSubTask(description)
  \/ ComponentsDone
  \/ ValidateDependencies
  \/ ComputeExecutionPlan

SpecIds == IdInit /\ [][IdNext]_vars

(***************************************************************************)
(* validate then plan, run again on the same list                          *)
(***************************************************************************)

\* Iteration orders of a Python set of strings: str hashes are salted per
\* interpreter process, so two processes may iterate the same set in
\* different orders.  The orders of two processes are enumerated.
SetOrders == {NameOrder, [i \in 1..Len(NameOrder) |-> NameOrder[Len(NameOrder) + 1 - i]]}

\* SeqOfSet in a process that iterates sets in the given order.
SeqOfSetUnder(order, S) == SelectInOrder(order, S)

\* TopologicalSorter(graph) in such a process.
TopologicalSorterUnder(order, graph) ==
  LET K == graph.keys
      F[i \in 0..Len(K)] ==
        IF i = 0 THEN <<>>
        ELSE AppendNew(F[i - 1], <<K[i]>> \o SeqOfSetUnder(order, graph.deps[K[i]]))
      nodes == F[Len(K)]
  IN [nodes |-> nodes,
      npredecessors |-> [x \in Range(nodes) |->
                           IF x \in Range(K) THEN Cardinality(graph.deps[x]) ELSE 0],
      successors |-> [x \in Range(nodes) |->
                        SelectInOrder(K, {k \in Range(K) : x \in graph.deps[k]})]]

\* topological_sort(dependencies) in such a process.
topological_sort_under(order, deps_list) ==
  LET ts == TopologicalSorterUnder(order, build_graph(deps_list))
  IN collect_levels(ts, [npredecessors |-> ts.npredecessors, ready_nodes |-> prepare(ts)])

\* A list of sub-tasks that is about to be validated and planned.
ReplanInit ==
  /\ step = "validate_and_plan"
  /\ sub_tasks \in GraphInputs
  /\ max_depth = DefaultMaxDepth
  /\ validation = NoError
  /\ execution_plan = <<>>
  /\ NoRun
  /\ NoMonitor
  /\ limiter = [max_total |-> 0, max_depth |-> 0, current_count |-> 0, agent_depths |-> <<>>]
  /\ admissions = <<>>
  /\ last_check = [count |-> 0, answer |-> "none"]
  /\ registrations = <<>>
  /\ tracker = NoTracker
  /\ governor = [tracked |-> FALSE, warnings |-> 0, raised |-> "none"]
  /\ plan_runs = <<>>
  /\ NoMetrics

\* validate_dependencies, then topological_sort when the list is valid, by a
\* process that iterates sets in the given order.
ValidateThenPlan(order) ==
  /\ step = "validate_and_plan"
  /\ Len(plan_runs) < 2
  /\ validation' = validate(sub_tasks, max_depth)
  /\ execution_plan' = IF validation'.ok THEN topological_sort_under(order, sub_tasks)
                       ELSE <<>>
  /\ plan_runs' = Append(plan_runs, [order |-> order, ok |-> validation'.ok,
                                     execution_plan |-> execution_plan'])
  /\ UNCHANGED <<step, sub_tasks, max_depth, dvars, mvars, lvars, tracker, governor, evars>>

ReplanNext == \E order \in SetOrders : ValidateThenPlan(order)

SpecReplan == ReplanInit /\ [][ReplanNext]_vars

(***************************************************************************)
(* MultiAgentOrchestrator.plan: the metrics of a plan                      *)
(***************************************************************************)

\* The estimated durations that are enumerated, in minutes.
Durations == {30, 45, 60, 90}

\* Task definitions of three or four tasks, each depending only on tasks
\* defined before it.
EstimateInputs ==
  UNION {{[i \in 1..n |-> [agent_id |-> NameOrder[i], depends_on |-> d[i]]] :
            d \in {e \in [1..n -> SUBSET Agents] :
                     \A i \in 1..n : e[i] \subseteq {NameOrder[j] : j \in 1..(i - 1)}}} :
         n \in 3..Len(NameOrder)}

RECURSIVE SumOver(_, _)
SumOver(f, S) ==
  IF S = {} THEN 0
  ELSE LET x == CHOOSE y \in S : TRUE IN f[x] + SumOver(f, S \ {x})

\* Variant: a wave takes as long as its shortest member.
wave_time_shortest(wave, duration) ==
  LET D == {duration[a] : a \in Range(wave)}
  IN CHOOSE x \in D : \A y \in D : x <= y

\* A wave takes as long as its longest member.
wave_time(wave, duration) == Max({duration[a] : a \in Range(wave)})

\* sequential_time_minutes: the sum over all nodes.
sequential_time(duration) == SumOver(duration, DOMAIN duration)

\* parallel_time_minutes: the sum over the waves of the time of the wave.
parallel_time(plan, duration) ==
  SumOver([i \in 1..Len(plan) |-> wave_time(plan[i], duration)], 1..Len(plan))

\* time_saved_percentage with one decimal, in tenths of a percent.
time_saved(sequential, parallel) ==
  IF sequential = 0 THEN 0
  ELSE (2 * 1000 * (sequential - parallel) + sequential) \div (2 * sequential)

\* max_parallelism: the size of the largest wave.
max_parallelism(plan) == Max({0} \cup {Len(plan[i]) : i \in 1..Len(plan)})

plan_metrics(plan, duration) ==
  [sequential_time_minutes |-> sequential_time(duration),
   parallel_time_minutes |-> parallel_time(plan, duration),
   time_saved_percentage |-> time_saved(sequential_time(duration),
                                        parallel_time(plan, duration)),
   max_parallelism |-> max_parallelism(plan)]

\* orchestrator.plan(tasks) is called with definitions and their estimates.
MetricsInit ==
  /\ step = "validate"
  /\ sub_tasks \in EstimateInputs
  /\ max_depth = DefaultMaxDepth
  /\ validation = NoError
  /\ execution_plan = <<>>
  /\ NoRun
  /\ NoMonitor
  /\ limiter = [max_total |-> 0, max_depth |-> 0, current_count |-> 0, agent_depths |-> <<>>]
  /\ admissions = <<>>
  /\ last_check = [count |-> 0, answer |-> "none"]
  /\ registrations = <<>>
  /\ tracker = NoTracker
  /\ governor = [tracked |-> FALSE, warnings |-> 0, raised |-> "none"]
  /\ plan_runs = <<>>
  /\ estimates \in [{sub_tasks[i].agent_id : i \in 1..Len(sub_tasks)} -> Durations]
  /\ priorities = <<>>
  /\ performance = NoPerformance
  /\ metrics = [sequential_time_minutes |-> 0, parallel_time_minutes |-> 0,
                time_saved_percentage |-> 0, max_parallelism |-> 0]

\* result.metrics of the plan that was computed.
ComputeMetrics ==
  /\ step = "planned"
  /\ estimates # <<>>
  /\ metrics' = plan_metrics(execution_plan, estimates)
  /\ step' = "reported"
  /\ UNCHANGED <<sub_tasks, max_depth, validation, execution_plan, dvars, mvars, lvars,
                 tracker, governor, plan_runs, estimates, priorities, performance>>

MetricsNext ==
  \/ ValidateDependencies
  \/ ComputeExecutionPlan
  \/ ComputeMetrics

SpecMetrics == MetricsInit /\ [][MetricsNext]_vars

(***************************************************************************)
(* The order of the tasks inside a level, and the launches it decides      *)
(***************************************************************************)

\* priority: enum, from the most to the least urgent.
Priorities == <<"critical", "high", "medium", "low">>

\* The estimated durations that are enumerated for tasks of one level.
TieDurations == {30, 90}

\* Sub-tasks with their priority and estimated_duration_minutes, about to be
\* validated, planned and executed.
OrderInit ==
  /\ step = "validate"
  /\ sub_tasks \in GovernorInputs
  /\ max_depth = DefaultMaxDepth
  /\ validation = NoError
  /\ execution_plan = <<>>
  /\ NoRun
  /\ NoMonitor
  /\ limiter = [max_total |-> 0, max_depth |-> 0, current_count |-> 0, agent_depths |-> <<>>]
  /\ admissions = <<>>
  /\ last_check = [count |-> 0, answer |-> "none"]
  /\ registrations = <<>>
  /\ tracker = NoTracker
  /\ governor = [tracked |-> FALSE, warnings |-> 0, raised |-> "none"]
  /\ plan_runs = <<>>
  /\ estimates \in [Agents -> TieDurations]
  /\ priorities \in [Agents -> Range(Priorities)]
  /\ performance = NoPerformance
  /\ metrics = [sequential_time_minutes |-> 0, parallel_time_minutes |-> 0,
                time_saved_percentage |-> 0, max_parallelism |-> 0]

OrderNext ==
  \/ ValidateDependencies
  \/ ComputeExecutionPlan
  \/ SetupWorkspaces
  \/ StartExecution
  \/ DispatchReady

SpecOrder == OrderInit /\ [][OrderNext]_vars

(***************************************************************************)
(* Properties of validation and planning, stated on the dependency         *)
(* relation itself.                                                        *)
(***************************************************************************)

DeclaredIds(l) == {l[i].agent_id : i \in 1..Len(l)}

UniqueIds(l) == \A i, j \in 1..Len(l) : i # j => l[i].agent_id # l[j].agent_id

Resolved(l) == \A i \in 1..Len(l) : l[i].depends_on \subseteq DeclaredIds(l)

\* <<d, t>>: task t declares a dependency on d.
Edges(l) == UNION {{<<d, l[i].agent_id>> : d \in l[i].depends_on} : i \in 1..Len(l)}

TransitiveClosure(E) ==
  LET N == {e[1] : e \in E} \cup {e[2] : e \in E}
      F[k \in 0..Cardinality(N)] ==
        IF k = 0 THEN E
        ELSE F[k - 1] \cup {p \in N \X N : \E b \in N : <<p[1], b>> \in F[k - 1] /\ <<b, p[2]>> \in E}
  IN F[Cardinality(N)]

Cyclic(l) == \E e \in TransitiveClosure(Edges(l)) : e[1] = e[2]

WellFormed(l) == UniqueIds(l) /\ Resolved(l)

\* Chains d1 <- d2 <- ... <- t of declared dependencies ending at task t.
ChainsTo(l, t) ==
  LET ids == DeclaredIds(l)
  IN {p \in UNION {[1..n -> ids] : n \in 1..Cardinality(ids)} :
        /\ p[Len(p)] = t
        /\ \A i \in 1..(Len(p) - 1) : <<p[i], p[i + 1]>> \in Edges(l)}

LongestChain(l, t) == Max({Len(p) - 1 : p \in ChainsTo(l, t)})

WaveOf(plan, t) == CHOOSE w \in 1..Len(plan) : t \in Range(plan[w])

Validated == step \in {"plan", "planned", "rejected"}

IsCyclePath(l, path) ==
  /\ Len(path) >= 2
  /\ path[1] = path[Len(path)]
  /\ \A i \in 1..(Len(path) - 1) : <<path[i], path[i + 1]>> \in Edges(l)
  /\ \A i, j \in 1..(Len(path) - 1) : i # j => path[i] # path[j]

ThreeCycle ==
  {<<[agent_id |-> "A", depends_on |-> {"C"}], [agent_id |-> "B", depends_on |-> {"A"}],
     [agent_id |-> "C", depends_on |-> {"B"}]>>,
   <<[agent_id |-> "A", depends_on |-> {"B"}], [agent_id |-> "B", depends_on |-> {"C"}],
     [agent_id |-> "C", depends_on |-> {"A"}]>>}

\* C7: for every definition set (unique, resolved) whose dependency relation
\* has a cycle, validation fails with CircularDependency, the reported path
\* is a cycle of the relation (so it holds every task of the detected cycle;
\* A, B and C for the three-cycle), the scheduler's own validate rejects the
\* graph too, and no execution plan is produced. Acyclic sets never get that
\* error.
C7_CycleRejectedWithPath ==
  (Validated /\ WellFormed(sub_tasks)) =>
    /\ Cyclic(sub_tasks) =>
         /\ step = "rejected"
         /\ validation.error = "CircularDependency"
         /\ IsCyclePath(sub_tasks, validation.path)
         /\ ~DAGScheduler_validate(build_graph(sub_tasks)).ok
         /\ execution_plan = <<>>
         /\ (sub_tasks \in ThreeCycle => Range(validation.path) = {"A", "B", "C"})
    /\ ~Cyclic(sub_tasks) => validation.error # "CircularDependency"

\* The three-cycle A -> B -> C -> A has been rejected.
C7_Witness ==
  /\ step = "rejected"
  /\ sub_tasks \in ThreeCycle
  /\ validation.error = "CircularDependency"

C9_FirstFailingCheck ==
  Validated =>
    /\ ~UniqueIds(sub_tasks) => validation.error = "DuplicateTask"
    /\ (UniqueIds(sub_tasks) /\ ~Resolved(sub_tasks)) =>
         validation.error = "UnknownDependency"
    /\ (WellFormed(sub_tasks) /\ Cyclic(sub_tasks)) =>
         validation.error = "CircularDependency"
    /\ Cyclic(sub_tasks) => validation.error # "DepthExceeded"
    /\ validation.error = "DepthExceeded" => WellFormed(sub_tasks) /\ ~Cyclic(sub_tasks)

\* A list that repeats a description and names an undeclared task has been
\* rejected as DuplicateTask.
C9_Witness ==
  /\ step = "rejected"
  /\ validation.error = "DuplicateTask"
  /\ ~Resolved(sub_tasks)

\* C10: on an acyclic, resolved set the depth of a task is the length of the
\* longest dependency chain ending in it (0 without dependencies, else 1 +
\* the largest depth of a dependency); validation fails with DepthExceeded
\* exactly when some depth is greater than max_depth, and the error carries
\* a task, its depth and max_depth. Depth equal to max_depth is accepted.
C10_DepthBound ==
  (Validated /\ WellFormed(sub_tasks) /\ ~Cyclic(sub_tasks)) =>
    LET graph == build_graph(sub_tasks)
        ids == DeclaredIds(sub_tasks)
    IN /\ \A t \in ids : depth_of(graph, t) = LongestChain(sub_tasks, t)
       /\ \A t \in ids : depth_of(graph, t) =
            IF graph.deps[t] = {} THEN 0
            ELSE 1 + Max({LongestChain(sub_tasks, d) : d \in graph.deps[t]})
       /\ validation.error = "DepthExceeded" <=>
            \E t \in ids : LongestChain(sub_tasks, t) > max_depth
       /\ validation.error = "DepthExceeded" =>
            /\ validation.task \in ids
            /\ validation.depth = LongestChain(sub_tasks, validation.task)
            /\ validation.depth > max_depth
            /\ validation.max_depth = max_depth
       /\ validation.ok <=> \A t \in ids : LongestChain(sub_tasks, t) <= max_depth

\* A chain whose deepest task is one level too deep has been rejected.
C10_Witness ==
  /\ step = "rejected"
  /\ validation.error = "DepthExceeded"
  /\ validation.depth = max_depth + 1

\* A chain whose deepest task sits exactly at max_depth has been accepted.
C10_WitnessAccepted ==
  /\ step = "planned"
  /\ \E t \in DeclaredIds(sub_tasks) : LongestChain(sub_tasks, t) = max_depth

(***************************************************************************)
(* Properties of the dispatchers.                                          *)
(***************************************************************************)

Running == scheduler # "none"

Dependencies(t) == build_graph(sub_tasks).deps[t]

\* The tasks that have x in their transitive dependency closure.
Dependents(x) == {t \in Agents : <<x, t>> \in TransitiveClosure(Edges(sub_tasks))}

InProgress == {a \in DOMAIN agent_status : agent_status[a] = "in-progress"}

\* The run is over: execute or execute_dag has returned.
RunOver == pc \in {"returned", "finished"}

\* Nothing is running and nothing is queued: the run is over, or the loop of
\* execute finds neither a ready agent nor an active one.
Quiescent ==
  \/ RunOver
  \/ /\ scheduler = "execute"
     /\ pc = "loop"
     /\ active_agents = <<>>
     /\ ts_state.ready_nodes = <<>>

\* No agent has failed so far.
NoFailure ==
  \A a \in DOMAIN agent_status : agent_status[a] # "failed" /\ results[a] # "failed"

\* C2: in every state of a run, a task that is in progress or has ever been
\* dispatched has all its dependencies in status completed (so a failed,
\* pending or in-progress dependency never makes its dependent ready).
C2_DispatchedAfterDependencies ==
  Running =>
    \A t \in DOMAIN agent_status :
      (agent_status[t] = "in-progress" \/ launch_count[t] > 0) =>
        \A d \in Dependencies(t) : agent_status[d] = "completed"

\* C3: whatever max_concurrent_agents (>= 1) and whatever the launches,
\* completions, failures and retries so far, the active agents, and the
\* agents whose status is in-progress, are never more than the limit.
C3_ConcurrencyBound ==
  Running =>
    /\ max_concurrent_agents >= 1
    /\ Len(active_agents) <= max_concurrent_agents
    /\ Cardinality(Range(active_agents)) = Len(active_agents)
    /\ InProgress \subseteq Range(active_agents)
    /\ Cardinality(InProgress) <= max_concurrent_agents

\* The limit is reached while a further agent, all of whose dependencies are
\* completed, has not been launched.
C3_Witness ==
  /\ Running
  /\ Len(active_agents) = max_concurrent_agents
  /\ Cardinality(InProgress) = max_concurrent_agents
  /\ \E t \in DOMAIN agent_status :
       /\ launch_count[t] = 0
       /\ \A d \in Dependencies(t) : agent_status[d] = "completed"

\* C4: the ready agents that find no free slot are launched later: when no
\* agent has failed and nothing is running or queued any more, every agent of
\* the plan has been launched exactly once and is completed.
C4_AllLaunchedOnceAndCompleted ==
  (Running /\ Quiescent /\ NoFailure) =>
    \A a \in DOMAIN agent_status : launch_count[a] = 1 /\ agent_status[a] = "completed"

\* C5: at the end of a run, every task with a failed task in its transitive
\* dependency closure is not completed and has never been launched.
C5_FailureContained ==
  (Running /\ RunOver) =>
    \A x \in DOMAIN agent_status :
      agent_status[x] = "failed" =>
        \A t \in Dependents(x) : agent_status[t] # "completed" /\ launch_count[t] = 0

\* C6: retries never exceeds max_retries, so that an agent is launched at
\* most once plus max_retries times; an agent the failure handling has given
\* up is failed, and from then on it stays failed and is not launched again.
C6_RetryBound ==
  /\ [](Running =>
          /\ retries <= max_retries
          /\ \A a \in DOMAIN launch_count : launch_count[a] <= 1 + max_retries
          /\ \A a \in abandoned : agent_status[a] = "failed")
  /\ [][\A a \in abandoned :
          /\ a \in abandoned'
          /\ agent_status'[a] = "failed"
          /\ launch_count'[a] = launch_count[a]]_vars

\* An agent has failed its first run and both retries, the debug agent has
\* suggested a retry each time, and retry_agent is about to leave its loop.
C6_Witness ==
  /\ pc = "retry_loop"
  /\ retries = max_retries
  /\ launch_count[failing] = 1 + max_retries

\* The agent given up after max_retries retries is failed at the end of the run.
C6_WitnessTerminal ==
  /\ pc = "finished"
  /\ \E a \in abandoned : launch_count[a] = 1 + max_retries /\ agent_status[a] = "failed"

(***************************************************************************)
(* Properties of the watched agent and its status file.                    *)
(***************************************************************************)

Watching == watch # "none"

\* The agent is overdue after this instant (it has started at tick 0).
Deadline == single_agent_timeout_minutes

\* What the master has written into the status file on a timeout.
TimeoutMarks ==
  {w \in write_log : /\ w.writer = "master"
                     /\ w.data[1] = "failed"
                     /\ w.data[3] \in {"Timeout exceeded", "Execution timeout"}}

\* The agent has not written its status since it started.
Silent == worker.pc = "running"

\* A silent agent is marked failed with a timeout error no later than one
\* polling interval after its deadline.
MarkedInTime ==
  /\ (Silent /\ now > Deadline + poll_interval_seconds) => monitor.timed_out
  /\ monitor.timed_out =>
       /\ TimeoutMarks # {}
       /\ monitor.result = "failed"
       /\ monitor.marked_at > Deadline - 1
       /\ monitor.marked_at <= Deadline + poll_interval_seconds

\* C11: an agent that does not update its status within the timeout is marked
\* failed with a timeout error no later than one polling interval after its
\* deadline, and the failure handling (debug agent) is invoked for it as it
\* is for an agent that has written failed itself.
C11_TimeoutEntersRecovery ==
  Watching =>
    /\ MarkedInTime
    /\ monitor.timed_out => monitor.debug_triggered

\* collect_results: the status the run result takes from the status file.
collect_results(file) == read_yaml(file).status

\* The watched agent is A; B depends on it, as in the docstring's example.
WatchedDependencies == [A |-> {}, B |-> {"A"}]

\* The statuses can_launch_agent is given: A's status file, B still pending.
WatchedStatuses == [A |-> read_yaml(file_system.status_file).status, B |-> "pending"]

\* C12: once the master has marked the agent as timed out, a later write of
\* the agent to its status file has no effect on scheduling: the dependent
\* does not become launchable and the outcome collected for the run stays
\* the failure the master has recorded.
C12_LateWritesIgnored ==
  (Watching /\ monitor.timed_out) =>
    /\ ~can_launch_agent("B", WatchedDependencies, WatchedStatuses)
    /\ collect_results(file_system.status_file) = monitor.result

\* The status changes of the state machine: launch, normal completion,
\* error, reset for retry.
StateTransitions ==
  {<<"pending", "in-progress">>, <<"in-progress", "completed">>,
   <<"in-progress", "failed">>, <<"failed", "pending">>}

\* C13: the status of an agent changes only along pending -> in-progress,
\* in-progress -> completed, in-progress -> failed and failed -> pending; in
\* particular an agent that is completed never takes another status.
C13_StatusStateMachine ==
  [][Running =>
       \A a \in DOMAIN agent_status :
         agent_status'[a] # agent_status[a] =>
           <<agent_status[a], agent_status'[a]>> \in StateTransitions]_vars

\* The debug agents launched for agent a.
DebugAgentsOf(a) == {d \in debug_agents : d.parent = a}

\* A debug agent is launched in this step.
DebugLaunched == debug_agents' # debug_agents

\* The agent whose failure is handled is given up in this step: it is failed,
\* no debug agent is launched and it is not launched again.
GivenUp ==
  /\ failing \in abandoned'
  /\ agent_status'[failing] = "failed"
  /\ debug_agents' = debug_agents
  /\ launch_count' = launch_count
  /\ pc' # "retry_loop"

C15_VerdictApplied ==
  [][(Running /\ DebugLaunched) =>
       IF pc' = "retry_loop"
       THEN /\ retries' = retries + 1
            /\ agent_status'[failing] = "pending"
       ELSE /\ agent_status'[failing] = "failed"
            /\ retries' = retries
            /\ failing \in abandoned']_vars

C17_SingleWriter ==
  Watching => \A w \in write_log : w.writer = "agent"

\* The complete documents handed to write_yaml so far.
Versions == {w.data : w \in write_log}

\* C18: whatever steps of a write_yaml (write the temp file, rename) a read
\* falls between, the status file holds, and read_yaml returns, a complete
\* document that was handed to write_yaml: the one before the write or the
\* one after it, never a part of one.
C18_AtomicReplace ==
  Watching =>
    /\ file_system.status_file \in Versions
    /\ observed \subseteq Versions
    /\ worker.pc = "writing" =>
         /\ file_system.status_file # worker.data
         /\ file_system.temp_file \in {SubSeq(worker.data, 1, 1), worker.data}
    /\ worker.pc = "running" => file_system.temp_file = <<>>

\* The master has read the status file while the agent was between two
\* steps of its write_yaml: the write began at an earlier tick than the poll.
C18_Witness ==
  /\ watch = "monitor_agent"
  /\ worker.pc = "writing"
  /\ worker.data[2] < now
  /\ monitor.pc = "waiting"
  /\ monitor.wake = now + poll_interval_seconds
  /\ file_system.status_file \in observed

\* Every registration so far followed a can_create that saw the count the
\* registration then incremented: no other agent was registered in between.
ChecksFresh ==
  \A i \in DOMAIN registrations : registrations[i].checked_at = i - 1

\* A request made when the count has reached max_total is denied.
DeniedAtLimit ==
  (last_check.answer # "none" /\ last_check.count >= limiter.max_total) =>
    /\ last_check.answer = "Max total agents reached"
    /\ ~can_create_agent(last_check.count, limiter.max_total)

Halted == governor.raised = "CostLimitExceeded"

\* The cumulative cost has reached the warning threshold, not the hard limit.
InWarningZone ==
  /\ tracker.total_cost >= tracker.warning_threshold_usd
  /\ tracker.total_cost < tracker.hard_limit_usd

\* The exception is raised exactly when the cost has reached the hard
\* limit, and it ends the dispatcher; in the warning zone a warning has been
\* logged and the dispatcher goes on.
CostLimitsApplied ==
  governor.tracked =>
    /\ Halted <=> tracker.total_cost >= tracker.hard_limit_usd
    /\ Halted <=> pc = "raised"
    /\ Halted <=> check_cost_limits(tracker.total_cost, tracker.hard_limit_usd,
                                    tracker.warning_threshold_usd) = "CostLimitExceeded"
    /\ InWarningZone => governor.warnings > 0 /\ pc \in {"loop", "wait", "returned"}

\* After the exception no agent is launched, no result is taken and the
\* sorter is left alone: no agent becomes ready.
NothingScheduledAfterHalt ==
  Halted =>
    /\ launch_count' = launch_count
    /\ active_agents' = active_agents
    /\ ts_state' = ts_state
    /\ results' = results
    /\ \A a \in Agents : agent_status[a] = "pending" => agent_status'[a] = "pending"

C20_WarningWitness ==
  /\ governor.tracked
  /\ InWarningZone
  /\ max_concurrent_agents = 1
  /\ pc = "wait"
  /\ active_agents # <<>>

\* The governor has denied a launch in this run.
Denied == governor.raised = "ResourceLimitExceeded"

\* After a denial no agent is launched.
NoLaunchAfterDenial ==
  Denied => launch_count' = launch_count /\ Range(active_agents') \subseteq Range(active_agents)

\* An agent that was launched and is no longer active is in the results with
\* the terminal status it reached.
FinishedAgentsReported ==
  \A a \in Agents :
    (launch_count[a] > 0 /\ a \notin Range(active_agents)) =>
      results[a] = agent_status[a] /\ results[a] \in {"completed", "failed"}

\* No agent is running or waiting to be taken from the finished tasks.
Drained == active_agents = <<>> /\ InProgress = {}

ValidationFailed ==
  /\ ~validation.ok
  /\ validation.error \in {"DuplicateTask", "UnknownDependency", "CircularDependency",
                           "DepthExceeded"}

\* C22: when validation fails with DuplicateTask, UnknownDependency,
\* CircularDependency or DepthExceeded, nothing of the execution exists: no
\* status record, no execution plan, no dispatched task, no counter changed.
C22_NoSideEffectOnRejection ==
  ~validation.ok =>
    /\ ValidationFailed
    /\ step = "rejected"
    /\ execution_plan = <<>>
    /\ agent_status = <<>>
    /\ NoRun
    /\ NoMonitor
    /\ NoGovernor

\* Validation has rejected a list that repeats a description.
C22_Witness ==
  /\ step = "rejected"
  /\ validation.error = "DuplicateTask"
  /\ agent_status = <<>>
  /\ pc = "idle"

\* C23: the persisted dependency list is at all times one that passes
\* validation, and the plan is the plan of that list: an insertion that
\* validation rejects leaves the list and the plan as they were before it.
C23_PersistedGraphValidated ==
  step \in {"planned", "inserted", "insert_rejected"} =>
    /\ validate(sub_tasks, max_depth).ok
    /\ step # "inserted" => execution_plan = topological_sort(sub_tasks)

\* C24: the agent ids that have been taken into the list of sub-tasks are
\* pairwise distinct after every registration: an id that collides with one
\* already in the list is not appended.
C24_AcceptedIdsDistinct ==
  \A i, j \in 1..Len(sub_tasks) :
    sub_tasks[i].agent_id = sub_tasks[j].agent_id => i = j

\* The tasks the run has given up: failed when the run is over.
Abandoned == {x \in Agents : agent_status[x] = "failed"}

\* The tasks that were never attempted: still pending, never launched.
NeverAttempted == {a \in Agents : agent_status[a] = "pending" /\ launch_count[a] = 0}

\* C25: when the run is over, collect_results finds every task completed,
\* failed or never attempted, and the tasks never attempted are exactly the
\* tasks that depend, directly or through others, on a task that was given
\* up.
C25_ResultClassifiesEveryTask ==
  RunOver =>
    /\ \A a \in Agents : agent_status[a] \in {"completed", "failed", "pending"}
    /\ \A a \in Agents : agent_status[a] = "pending" => a \in NeverAttempted
    /\ NeverAttempted = UNION {Dependents(x) : x \in Abandoned}

\* The waves of a plan as sets of tasks.
WavePartition(plan) == [i \in 1..Len(plan) |-> Range(plan[i])]

\* C26: two runs of validate then plan on the same list return the same
\* verdict and the same plan: the same waves, and the same order of the
\* tasks inside each wave.
C26_PlanIdempotent ==
  Len(plan_runs) = 2 =>
    /\ plan_runs[1].ok = plan_runs[2].ok
    /\ plan_runs[1].execution_plan = plan_runs[2].execution_plan

\* What holds of two runs: the waves are the same sets of tasks, and the
\* whole plan is the same when both runs are made by the same process or
\* every task is defined after the tasks it depends on.
C26_SamePartition ==
  Len(plan_runs) = 2 =>
    /\ plan_runs[1].ok = plan_runs[2].ok
    /\ WavePartition(plan_runs[1].execution_plan) = WavePartition(plan_runs[2].execution_plan)
    /\ (plan_runs[1].order = plan_runs[2].order \/ sub_tasks \in DagInputs) =>
         plan_runs[1].execution_plan = plan_runs[2].execution_plan

\* The time at which a task can finish at the earliest: its own duration
\* after the latest of the tasks it depends on.
RECURSIVE EarliestFinish(_)
EarliestFinish(i) ==
  estimates[sub_tasks[i].agent_id]
    + Max({0} \cup {EarliestFinish(j) : j \in {k \in 1..(i - 1) :
                                               sub_tasks[k].agent_id \in sub_tasks[i].depends_on}})

AllSingletons == \A i \in 1..Len(execution_plan) : Len(execution_plan[i]) = 1

\* Scenario A: design 45, auth 60 after design, crud 90 after both.
ScenarioA ==
  /\ sub_tasks = <<[agent_id |-> "A", depends_on |-> {}],
                   [agent_id |-> "B", depends_on |-> {"A"}],
                   [agent_id |-> "C", depends_on |-> {"A", "B"}]>>
  /\ estimates = ("A" :> 45) @@ ("B" :> 60) @@ ("C" :> 90)

\* Scenario B: design 30, then backend 90 and frontend 60, both after design.
ScenarioB ==
  /\ sub_tasks = <<[agent_id |-> "A", depends_on |-> {}],
                   [agent_id |-> "B", depends_on |-> {"A"}],
                   [agent_id |-> "C", depends_on |-> {"A"}]>>
  /\ estimates = ("A" :> 30) @@ ("B" :> 90) @@ ("C" :> 60)

\* The user guide's REST API example: five tasks in four waves.
GuideExample ==
  plan_metrics(<<<<"schema">>, <<"auth">>, <<"crud", "comments">>, <<"tests">>>>,
               ("schema" :> 45) @@ ("auth" :> 60) @@ ("crud" :> 90) @@ ("comments" :> 60)
                 @@ ("tests" :> 45))

C27_WitnessSingletons ==
  step = "reported" /\ ScenarioA /\ metrics.parallel_time_minutes = 195

\* The tasks that are completed.
Completed == {a \in DOMAIN agent_status : agent_status[a] = "completed"}

\* The tasks execute_dag completes when no agent fails: level after level,
\* the batch of a parallel level or every agent of a sequential one, as far
\* as their dependencies are completed.
RECURSIVE wave_completed(_, _, _, _)
wave_completed(plan, limit, l, done) ==
  IF l > Len(plan) THEN done
  ELSE LET agents == plan[l]
           batch == IF parallelizable(agents) THEN batch_of(agents, limit) ELSE agents
           run == {a \in Range(batch) : Dependencies(a) \subseteq done}
       IN wave_completed(plan, limit, l + 1, done \cup run)

\* execute_dag, run to its end without a failure, completes these tasks.
WaveModelCompletes ==
  (scheduler = "execute_dag" /\ RunOver /\ NoFailure) =>
    Completed = wave_completed(execution_plan, max_concurrent_agents, 1, {})

\* C28: run to the end on the same DAG with the same limit and without a
\* failure, DAGScheduler.execute (live frontier) completes exactly the tasks
\* that execute_dag (wave after wave) completes, and it launches a task only
\* when all its dependencies are completed.
C28_SameCompletedSet ==
  (scheduler = "execute" /\ NoFailure) =>
    /\ \A t \in DOMAIN agent_status :
         launch_count[t] > 0 => \A d \in Dependencies(t) : agent_status[d] = "completed"
    /\ Quiescent =>
         Completed = wave_completed(execution_plan, max_concurrent_agents, 1, {})

\* What holds of the two dispatchers: a run of execute that returns without
\* a failure has completed every task, and these include the tasks that
\* execute_dag completes.
C28_ReturnedRunsCompleteAll ==
  (scheduler = "execute" /\ RunOver /\ NoFailure) =>
    /\ Completed = DOMAIN agent_status
    /\ wave_completed(execution_plan, max_concurrent_agents, 1, {}) \subseteq Completed

\* Task a goes before task b inside a wave: higher priority, then the longer
\* estimate, then the earlier definition.
GoesBefore(a, b) ==
  LET pa == IndexOf(Priorities, priorities[a])
      pb == IndexOf(Priorities, priorities[b])
      ia == CHOOSE i \in 1..Len(sub_tasks) : sub_tasks[i].agent_id = a
      ib == CHOOSE i \in 1..Len(sub_tasks) : sub_tasks[i].agent_id = b
  IN \/ pa < pb
     \/ pa = pb /\ estimates[a] > estimates[b]
     \/ pa = pb /\ estimates[a] = estimates[b] /\ ia < ib

\* The first launches of the run have been made.
FirstLaunches == step = "executing" /\ pc = "wait" /\ ts_state.nfinished = 0

\* C29: inside each wave of the plan the tasks are ordered by priority
\* (critical, high, medium, low), then by the larger estimated duration,
\* then by the order of their definitions; and when the limit lets only some
\* of the ready tasks of a wave be launched, the launched ones go before the
\* ones left out.
C29_WaveOrderAndLaunchChoice ==
  (priorities # <<>> /\ execution_plan # <<>>) =>
    /\ \A w \in 1..Len(execution_plan) :
         \A i, j \in 1..Len(execution_plan[w]) :
           i < j => GoesBefore(execution_plan[w][i], execution_plan[w][j])
    /\ FirstLaunches =>
         \A a \in Range(active_agents) :
           \A b \in Range(execution_plan[1]) \ Range(active_agents) : GoesBefore(a, b)

\* Task x is failed, or the failure handling is at work on it.
FailedOrRetried(x) == agent_status[x] = "failed" \/ failing = x

\* In this step no task is launched that depends, directly or through
\* others, on a task that is failed or being retried.
DependentsHeldBack ==
  \A x \in DOMAIN agent_status :
    FailedOrRetried(x) => \A t \in Dependents(x) : launch_count'[t] = launch_count[t]

\* C30: while a task is failed or being retried, none of its dependents is
\* dispatched; they are dispatched only when the retry has completed.
C30_DependentsWaitForRetry == [][DependentsHeldBack]_vars

\* What holds: execute_dag, which handles a failure before it goes on,
\* launches no dependent of a task that is failed or being retried.
C30_LevelsHoldDependentsBack == [][scheduler = "execute_dag" => DependentsHeldBack]_vars

\* C31: under fair scheduling the loop of the dispatcher terminates, for
\* every valid list, every limit of at least 1 and every pattern of
\* failures: execute returns.
C31_DispatcherTerminates == <>RunOver

\* What holds: the run reaches a state in which no agent is ready and none
\* is active.
C31_ReachesQuiescence == <>Quiescent

\* The wave of the plan that holds task t.
RunWave(t) == WaveOf(execution_plan, t)

BothRegisteredAfterLastSlot ==
  \E i, j \in DOMAIN registrations :
    /\ i < j
    /\ registrations[i].checked_at = limiter.max_total - 1
    /\ registrations[j].checked_at = limiter.max_total - 1

\* C33: when two creators interleave their checks and their registrations,
\* both asking can_create at the count max_total - 1 and both registering,
\* the count of agents still does not exceed max_total: the check and the
\* increment act as one atomic step.
C33_InterleavedCreatorsWithinLimit ==
  BothRegisteredAfterLastSlot => limiter.current_count <= limiter.max_total

\* The callers that can ask for an agent: the master and the agents.
Parents == {Master} \cup DOMAIN limiter.agent_depths

\* C34: no agent is registered at a depth beyond max_depth; a request of a
\* parent at depth max_depth is denied, the depth rule lets a request of a
\* parent at depth max_depth - 1 pass (it is granted unless the total count
\* is reached), and the rule of can_create on the child's depth decides as
\* can_create_subagent does on the parent's depth, for every depth.
C34_DepthNeverExceeded ==
  limiter.max_total > 0 =>
    /\ \A a \in DOMAIN limiter.agent_depths : limiter.agent_depths[a] <= limiter.max_depth
    /\ \A p \in Parents :
         /\ parent_depth(limiter, p) = limiter.max_depth => can_create(limiter, p) # "True"
         /\ parent_depth(limiter, p) = limiter.max_depth - 1 =>
              /\ can_create(limiter, p) # "Max depth exceeded"
              /\ limiter.current_count < limiter.max_total => can_create(limiter, p) = "True"
         /\ (parent_depth(limiter, p) + 1 > limiter.max_depth)
              <=> ~can_create_subagent(parent_depth(limiter, p), limiter.max_depth)
    /\ \A d \in 0..(limiter.max_depth + 1) :
         (d + 1 > limiter.max_depth) <=> ~can_create_subagent(d, limiter.max_depth)

\* An agent at depth max_depth has asked for an agent and was denied for its
\* depth, after its own parent at depth max_depth - 1 was allowed.
C34_Witness ==
  /\ limiter.max_total > 0
  /\ last_check.answer = "Max depth exceeded"
  /\ \E r \in Range(registrations) :
       /\ parent_depth(limiter, r.parent_id) = limiter.max_depth - 1
       /\ limiter.agent_depths[r.agent_id] = limiter.max_depth
       /\ can_create(limiter, r.agent_id) = "Max depth exceeded"

\* The depth of a task: 0 without dependencies, else one more than the
\* deepest of its dependencies; waves are counted from 1.
PlanDepth(t) == WaveOf(execution_plan, t) - 1

\* C35: the wave of a task in the plan is its depth, 0 for a task without
\* dependencies and otherwise one more than the largest wave index of its
\* dependencies, which is the length of the longest chain of dependencies
\* that ends in the task: every wave holds every task whose dependencies
\* lie in earlier waves, and the plan has one wave more than the longest
\* chain has edges.
C35_WaveIndexIsDepth ==
  step = "planned" =>
    LET ids == DeclaredIds(sub_tasks)
        deps == build_graph(sub_tasks).deps
    IN /\ \A t \in ids :
            PlanDepth(t) = IF deps[t] = {} THEN 0
                           ELSE 1 + Max({PlanDepth(d) : d \in deps[t]})
       /\ \A t \in ids : PlanDepth(t) = LongestChain(sub_tasks, t)
       /\ \A w \in 1..Len(execution_plan) :
            \A t \in ids :
              (\A d \in deps[t] : WaveOf(execution_plan, d) < w) =>
                WaveOf(execution_plan, t) <= w
       /\ Len(execution_plan) = 1 + Max({LongestChain(sub_tasks, t) : t \in ids})

\* A plan of three waves with a task whose dependencies lie in two
\* different waves, as order does after arch01 and user.
C35_Witness ==
  /\ step = "planned"
  /\ Len(execution_plan) = 3
  /\ \E t \in DeclaredIds(sub_tasks) :
       \E d1, d2 \in build_graph(sub_tasks).deps[t] :
         WaveOf(execution_plan, d1) < WaveOf(execution_plan, d2)

\* The agents launched in this step.
LaunchedNow == {a \in DOMAIN launch_count : launch_count'[a] > launch_count[a]}

\* Every agent has at most one slot of the active list and has been launched
\* at most 1 + max_retries times.
OneSlotAndBoundedLaunches ==
  Running =>
    /\ Cardinality(Range(active_agents)) = Len(active_agents)
    /\ \A a \in DOMAIN launch_count : launch_count[a] <= 1 + max_retries

\* C36: a task occupies at most one slot of the active set, it is dispatched
\* only from status pending, so that a completed task is never dispatched
\* again, and it is dispatched at most 1 + max_retries times in a run.
C36_DispatchedFromPendingOnly ==
  /\ []OneSlotAndBoundedLaunches
  /\ [][\A a \in LaunchedNow : agent_status[a] = "pending"]_vars

\* What holds: an agent is launched from status pending or, by its first
\* retry, from status failed; a completed agent is never launched again.
C36_CompletedNeverRelaunched ==
  /\ []OneSlotAndBoundedLaunches
  /\ [][\A a \in LaunchedNow : agent_status[a] \in {"pending", "failed"}]_vars

\* The poll of monitor_agent that returns treats the agent by the status it
\* has read: completed or failed as recorded, whatever the clock says, and
\* the timeout only for a record that is neither.
PollTakesRecordedStatus ==
  (watch = "monitor_agent" /\ monitor.pc = "waiting" /\ monitor'.pc = "returned") =>
    LET status == read_yaml(file_system.status_file)
    IN /\ status.status \in {"completed", "failed"} =>
            /\ monitor'.result = status.status
            /\ ~monitor'.timed_out
            /\ file_system' = file_system
       /\ monitor'.timed_out =>
            /\ status.status \notin {"completed", "failed"}
            /\ timeout_exceeded(status, single_agent_timeout_minutes)

\* C37: a poll that reads the status completed (or failed) after the
\* deadline of the agent has passed treats the agent by its recorded status
\* and not as a timeout; the timeout branch is taken only for a record that
\* is neither completed nor failed.
C37_RecordedStatusBeforeTimeout == [][PollTakesRecordedStatus]_vars

\* A poll made after the deadline has read completed and has returned it.
C37_Witness ==
  /\ watch = "monitor_agent"
  /\ monitor.pc = "returned"
  /\ monitor.wake > single_agent_timeout_minutes
  /\ monitor.result = "completed"
  /\ ~monitor.timed_out
  /\ read_yaml(file_system.status_file).status = "completed"

\* In this step neither counter decreases.
CountersGrow ==
  /\ limiter.current_count' >= limiter.current_count
  /\ performance'.peak_concurrent >= performance.peak_concurrent

\* The peak that collect reports in this step is at least the size of the
\* active list, which the largest size reached so far is, and at most the
\* limit.
PeakCoversActive ==
  performance' # performance =>
    /\ performance'.peak_concurrent >= Len(active_agents)
    /\ performance'.peak_concurrent <= max_concurrent_agents

\* C38: within a run the number of agents created and the peak of
\* concurrent agents never decrease, and the peak is the largest size the
\* active set has reached so far, hence at most the limit.
C38_CountersMonotoneAndPeakExact == [][CountersGrow /\ PeakCoversActive]_vars

\* What holds: the number of agents created never decreases and counts the
\* launches, and the peak that is reported never decreases.
C38_CreatedCountMonotone ==
  [][/\ CountersGrow
     /\ limiter.current_count' \in {limiter.current_count} \cup
          {limiter.current_count + n : n \in 1..max_concurrent_agents}]_vars

====
